---- MODULE Spec2Model ----
(***************************************************************************)
(* Model of the Tello mission controller (controller/src/index.ts, with    *)
(* the PID / navigation code of pid.ts and the helpers of utils.ts).       *)
(*                                                                         *)
(* Numbers.  JavaScript numbers are modelled by exact arithmetic:          *)
(*   - pixel errors are kept doubled (err2 = 2 * error), because a box     *)
(*     centre (x_min + x_max) / 2 may be a half pixel;                     *)
(*   - a PID integral is kept in units of 1/2000 (error * dt with the      *)
(*     error in half pixels and dt in milliseconds);                       *)
(*   - PID gains are kept in hundredths (kp 0.15 is 15);                   *)
(*   - a PID output is the exact real q + r/d, 0 <= r < d;                 *)
(*   - a telemetry value is [nan, v], so that NaN is a value of its own.   *)
(* Strings that are parsed are sequences of one-character strings.         *)
(***************************************************************************)
EXTENDS Integers, Sequences, FiniteSets, TLC

VARIABLES
    missionController,  \* let missionController: AbortController | null
    aborted,            \* the AbortControllers whose signal is aborted
    currentTarget,      \* let currentTarget
    droneState,         \* let droneState: DroneState | null
    navController,      \* const navController: its three PID states
    now,                \* Date.now(), in milliseconds
    loops,              \* the runMission invocations, by AbortController id
    agentWs,            \* the orchestrator link
    sends,              \* the orchestrator message the last callback handled, and what it sent
    unit,               \* a PID unit exercised on its own, and the calls made on it (history)
    unitOut,            \* the last calculate call on unit
    navOut,             \* the last navigation or geometry call exercised on its own
    parseOut,           \* the last parseTelloState call exercised on its own
    timers,             \* the setTimeout callbacks of the link that are pending
    lastGood,           \* the datagrams received: the latest, and the latest accepted (history)
    calls,              \* calls made so far on what is exercised on its own; stray messages received
    agent               \* the DroneAgent of the orchestrator, exercised on its own

vars == <<missionController, aborted, currentTarget, droneState, navController,
          now, loops, agentWs, sends, unit, unitOut, navOut, parseOut, timers,
          lastGood, calls, agent>>

\* ------------------------------------------------------------------------
\* Program constants
\* ------------------------------------------------------------------------
FRAME_WIDTH == 960
FRAME_HEIGHT == 720
DETECTION_INTERVAL == 1500
MIN_MOVE == 20
MAX_MOVE == 100
LANDING_COVERAGE == 75
CENTER_TOLERANCE == 50
\* anti-windup limit of the integral accumulator (Math.max(-100, Math.min(100, ..)))
INTEGRAL_LIMIT == 100
\* droneState.h < 30: take off first
TAKEOFF_HEIGHT == 30
\* rotation of the search command "cw 30"
SEARCH_ANGLE == 30
\* rotationAngle >= 5, Math.min(rotationAngle, 45)
MIN_ROTATION == 5
MAX_ROTATION == 45

\* ------------------------------------------------------------------------
\* Exact arithmetic
\* ------------------------------------------------------------------------
Abs(x) == IF x < 0 THEN -x ELSE x

MinInt(a, b) == IF a < b THEN a ELSE b

MaxInt(a, b) == IF a > b THEN a ELSE b

\* floor(a / b) and the remainder, for b > 0
FloorDiv(a, b) == a \div b

FloorMod(a, b) == a % b

\* Math.round(a / b) for b > 0: floor(a / b + 1/2), ties go up
RoundDiv(a, b) == FloorDiv(2 * a + b, 2 * b)

\* the real q + r/d
Real(q, r, d) == [q |-> q, r |-> r, d |-> d]

RealOfInt(n) == Real(n, 0, 1)

\* a/b + c/d for b, d > 0, without forming a*d
RealSum(a, b, c, d) ==
    LET qa == FloorDiv(a, b)
        ra == FloorMod(a, b)
        qc == FloorDiv(c, d)
        rc == FloorMod(c, d)
        num == ra * d + rc * b
        den == b * d
    IN  IF num >= den THEN Real(qa + qc + 1, num - den, den)
        ELSE Real(qa + qc, num, den)

RealGtInt(x, n) == x.q > n \/ (x.q = n /\ x.r > 0)

RealLtInt(x, n) == x.q < n

\* Math.round(x)
RealRound(x) == IF 2 * x.r >= x.d THEN x.q + 1 ELSE x.q

\* Math.round(x * 0.5) = floor((x + 1) / 2)
RealRoundHalf(x) == FloorDiv(x.q + 1, 2)

\* ------------------------------------------------------------------------
\* PIDController
\* ------------------------------------------------------------------------
\* constructor / reset(): { integral: 0, lastError: 0, lastTime: Date.now() }
PIDFresh(t) == [integral |-> 0, lastError |-> 0, lastTime |-> t]

\* a reset() that leaves the timestamp as it was
PIDResetKeepsTime(state, t) == [integral |-> 0, lastError |-> 0, lastTime |-> state.lastTime]

PIDReset(state, t) == PIDFresh(t)

PIDGains(kp, ki, kd) == [kp |-> kp, ki |-> ki, kd |-> kd]

PIDConfig(gains, minOutput, maxOutput) ==
    [gains |-> gains, minOutput |-> minOutput, maxOutput |-> maxOutput]

\* an accumulator without the anti-windup clamp
PIDIntegralUnclamped(state, err2, dtms) == state.integral + err2 * dtms

\* this.state.integral += error * dt; clamped to [-100, 100]
PIDIntegral(state, err2, dtms) ==
    MaxInt(-INTEGRAL_LIMIT * 2000,
           MinInt(INTEGRAL_LIMIT * 2000, state.integral + err2 * dtms))

\* p + i + d, before the output clamp
PIDRawOutput(cfg, state, err2, dtms) ==
    LET integral == PIDIntegral(state, err2, dtms)
        \* p + i = (kp * err2 / 200) + (ki * integral / 200000)
        pi == cfg.gains.kp * 1000 * err2 + cfg.gains.ki * integral
        \* d = kd * ((error - lastError) / dt), 0 when dt <= 0
        dnum == IF dtms > 0 THEN 5 * cfg.gains.kd * (err2 - state.lastError) ELSE 0
        dden == IF dtms > 0 THEN dtms ELSE 1
    IN  RealSum(pi, 200000, dnum, dden)

\* mutant: the upper clamp alone
PIDClampUpperOnly(cfg, output) ==
    IF RealGtInt(output, cfg.maxOutput) THEN RealOfInt(cfg.maxOutput) ELSE output

\* Math.max(minOutput, Math.min(maxOutput, output))
PIDClamp(cfg, output) ==
    LET upper == IF RealGtInt(output, cfg.maxOutput)
                 THEN RealOfInt(cfg.maxOutput) ELSE output
    IN  IF RealLtInt(upper, cfg.minOutput) THEN RealOfInt(cfg.minOutput) ELSE upper

\* calculate(error) at clock value t: the returned output and the new state
PIDCalculate(cfg, state, err2, t) ==
    LET dtms == t - state.lastTime
    IN  [output |-> PIDClamp(cfg, PIDRawOutput(cfg, state, err2, dtms)),
         state |-> [integral |-> PIDIntegral(state, err2, dtms),
                    lastError |-> err2,
                    lastTime |-> t]]

\* ------------------------------------------------------------------------
\* Detection geometry (utils.ts)
\* ------------------------------------------------------------------------
\* null and undefined: the function with the empty domain, which TLC can
\* compare with a record, with a sequence and with a snapshot
Null == <<>>

Box(x_min, y_min, x_max, y_max) ==
    [x_min |-> x_min, y_min |-> y_min, x_max |-> x_max, y_max |-> y_max]

DetectionData(coords, coverage) ==
    [frame_width |-> FRAME_WIDTH, frame_height |-> FRAME_HEIGHT,
     object_coordinate |-> coords, object_coverage_percentage |-> coverage]

\* calculateObjectCoverage reads obj.x_max of data.object_coordinate: a
\* TypeError when it is null
CoverageThrows(data) == data.object_coordinate = Null

\* the k below 200 for which (objectArea / 691200) * 100, in double
\* precision, comes out just below k + 1/2 though the share is exactly
\* k + 1/2 percent (14.5 is computed as 14.499999999999998); for every
\* other share of a 960 x 720 frame up to 200 percent the double rounds
\* as the exact value does
FloatTiesDown == {14, 28, 56, 57, 100, 101, 102, 103, 125, 126, 127}

\* Math.round((objectArea / frameArea) * 100), when it does not throw
calculateObjectCoverage(data) ==
    LET obj == data.object_coordinate
        objectArea == (obj.x_max - obj.x_min) * (obj.y_max - obj.y_min)
        frameArea == data.frame_width * data.frame_height
        exact == RoundDiv(100 * objectArea, frameArea)
        tie == FloorMod(200 * objectArea, 2 * frameArea) = frameArea
    IN  IF tie /\ frameArea = FRAME_WIDTH * FRAME_HEIGHT /\ (exact - 1) \in FloatTiesDown
        THEN exact - 1
        ELSE exact

\* ------------------------------------------------------------------------
\* NavigationController
\* ------------------------------------------------------------------------
Command(op, n) == [op |-> op, n |-> n]

\* a command without an argument: "takeoff", "land", "command", ...
Plain(op) == Command(op, 0)

ConfigX == PIDConfig(PIDGains(15, 1, 5), -MAX_MOVE, MAX_MOVE)

ConfigY == PIDConfig(PIDGains(12, 1, 4), -MAX_MOVE, MAX_MOVE)

ConfigZ == PIDConfig(PIDGains(10, 1, 3), -MAX_MOVE, MAX_MOVE)

\* constructor: three fresh PID controllers
NavFresh(t) == [pidX |-> PIDFresh(t), pidY |-> PIDFresh(t), pidZ |-> PIDFresh(t)]

\* mutant: only pidX is reset
NavResetXOnly(nav, t) ==
    [pidX |-> PIDReset(nav.pidX, t), pidY |-> nav.pidY, pidZ |-> nav.pidZ]

\* reset(): pidX.reset(); pidY.reset(); pidZ.reset()
NavReset(nav, t) ==
    [pidX |-> PIDReset(nav.pidX, t),
     pidY |-> PIDReset(nav.pidY, t),
     pidZ |-> PIDReset(nav.pidZ, t)]

\* errorX = objCenterX - frameCenterX, doubled
ErrorX2(detection) ==
    (detection.object_coordinate.x_min + detection.object_coordinate.x_max)
        - detection.frame_width

\* errorY = frameCenterY - objCenterY, doubled
ErrorY2(detection) ==
    detection.frame_height
        - (detection.object_coordinate.y_min + detection.object_coordinate.y_max)

\* a forwardDist that truncates where the code rounds
ForwardDistTruncated(coverage) ==
    MaxInt(MIN_MOVE, MinInt(MAX_MOVE, FloorDiv(3 * (100 - coverage), 2)))

\* forwardDist of the centred branch
ForwardDist(coverage) ==
    MaxInt(MIN_MOVE, MinInt(MAX_MOVE, RoundDiv(3 * (100 - coverage), 2)))

\* mutant: the altitude branch without its verticalMove >= MIN_MOVE test
NavDecideNoVerticalMinimum(detection, outputX, outputY) ==
    LET errorX2 == ErrorX2(detection)
        errorY2 == ErrorY2(detection)
        absErrorX2 == Abs(errorX2)
        absErrorY2 == Abs(errorY2)
        rotationAngle == Abs(RealRoundHalf(outputX))
        verticalMove == Abs(RealRound(outputY))
    IN  IF absErrorX2 < 2 * CENTER_TOLERANCE /\ absErrorY2 < 2 * CENTER_TOLERANCE
        THEN Command("forward", ForwardDist(detection.object_coverage_percentage))
        ELSE IF absErrorX2 > absErrorY2 /\ rotationAngle >= MIN_ROTATION
        THEN Command(IF errorX2 > 0 THEN "cw" ELSE "ccw",
                     MinInt(rotationAngle, MAX_ROTATION))
        ELSE IF ~(absErrorX2 > absErrorY2)
        THEN Command(IF errorY2 > 0 THEN "up" ELSE "down",
                     MinInt(verticalMove, MAX_MOVE))
        ELSE Command("forward", MIN_MOVE)

\* a command selection that turns and climbs by the sign of the PID output
\* where the code takes the sign of the error
NavDecideDirectionByOutput(detection, outputX, outputY) ==
    LET errorX2 == ErrorX2(detection)
        errorY2 == ErrorY2(detection)
        absErrorX2 == Abs(errorX2)
        absErrorY2 == Abs(errorY2)
        rotationAngle == Abs(RealRoundHalf(outputX))
        verticalMove == Abs(RealRound(outputY))
    IN  IF absErrorX2 < 2 * CENTER_TOLERANCE /\ absErrorY2 < 2 * CENTER_TOLERANCE
        THEN Command("forward", ForwardDist(detection.object_coverage_percentage))
        ELSE IF absErrorX2 > absErrorY2 /\ rotationAngle >= MIN_ROTATION
        THEN Command(IF RealGtInt(outputX, 0) THEN "cw" ELSE "ccw",
                     MinInt(rotationAngle, MAX_ROTATION))
        ELSE IF ~(absErrorX2 > absErrorY2) /\ verticalMove >= MIN_MOVE
        THEN Command(IF RealGtInt(outputY, 0) THEN "up" ELSE "down",
                     MinInt(verticalMove, MAX_MOVE))
        ELSE Command("forward", MIN_MOVE)

\* the branches of generateCommand that follow the two calculate calls
NavDecide(detection, outputX, outputY) ==
    LET errorX2 == ErrorX2(detection)
        errorY2 == ErrorY2(detection)
        absErrorX2 == Abs(errorX2)
        absErrorY2 == Abs(errorY2)
        rotationAngle == Abs(RealRoundHalf(outputX))
        verticalMove == Abs(RealRound(outputY))
    IN  IF absErrorX2 < 2 * CENTER_TOLERANCE /\ absErrorY2 < 2 * CENTER_TOLERANCE
        THEN Command("forward", ForwardDist(detection.object_coverage_percentage))
        ELSE IF absErrorX2 > absErrorY2 /\ rotationAngle >= MIN_ROTATION
        THEN Command(IF errorX2 > 0 THEN "cw" ELSE "ccw",
                     MinInt(rotationAngle, MAX_ROTATION))
        ELSE IF ~(absErrorX2 > absErrorY2) /\ verticalMove >= MIN_MOVE
        THEN Command(IF errorY2 > 0 THEN "up" ELSE "down",
                     MinInt(verticalMove, MAX_MOVE))
        ELSE Command("forward", MIN_MOVE)

\* mutant: the landing test with > in place of >=
generateCommandStrictLanding(nav, detection, t) ==
    IF detection.object_coordinate = Null
    THEN [command |-> Command("cw", SEARCH_ANGLE), nav |-> NavReset(nav, t)]
    ELSE IF detection.object_coverage_percentage > LANDING_COVERAGE
    THEN [command |-> Plain("land"), nav |-> NavReset(nav, t)]
    ELSE LET cx == PIDCalculate(ConfigX, nav.pidX, ErrorX2(detection), t)
             cy == PIDCalculate(ConfigY, nav.pidY, ErrorY2(detection), t)
         IN  [command |-> NavDecide(detection, cx.output, cy.output),
              nav |-> [pidX |-> cx.state, pidY |-> cy.state, pidZ |-> nav.pidZ]]

\* generateCommand(detection, droneState) at clock value t: the command
\* returned and the controller's PID state afterwards (droneState is not read)
generateCommand(nav, detection, t) ==
    IF detection.object_coordinate = Null
    THEN [command |-> Command("cw", SEARCH_ANGLE), nav |-> NavReset(nav, t)]
    ELSE IF detection.object_coverage_percentage >= LANDING_COVERAGE
    THEN [command |-> Plain("land"), nav |-> NavReset(nav, t)]
    ELSE LET cx == PIDCalculate(ConfigX, nav.pidX, ErrorX2(detection), t)
             cy == PIDCalculate(ConfigY, nav.pidY, ErrorY2(detection), t)
         IN  [command |-> NavDecide(detection, cx.output, cy.output),
              nav |-> [pidX |-> cx.state, pidY |-> cy.state, pidZ |-> nav.pidZ]]

\* ------------------------------------------------------------------------
\* parseTelloState
\* ------------------------------------------------------------------------
\* a JavaScript number of the telemetry feed: an integer, or NaN
Num(v) == [nan |-> FALSE, v |-> v]

NaN == [nan |-> TRUE, v |-> 0]

\* a < b on numbers: false when either side is NaN
NumLess(a, b) == ~a.nan /\ ~b.nan /\ a.v < b.v

Digits == <<"0", "1", "2", "3", "4", "5", "6", "7", "8", "9">>

IsDigit(c) == \E i \in 1..10 : Digits[i] = c

DigitValue(c) == (CHOOSE i \in 1..10 : Digits[i] = c) - 1

IsSpace(c) == c \in {" ", "\n", "\r"}

RECURSIVE TrimStart(_)
TrimStart(s) ==
    IF s # <<>> /\ IsSpace(Head(s)) THEN TrimStart(Tail(s)) ELSE s

RECURSIVE TrimEnd(_)
TrimEnd(s) ==
    IF s # <<>> /\ IsSpace(s[Len(s)]) THEN TrimEnd(SubSeq(s, 1, Len(s) - 1)) ELSE s

\* String.prototype.trim
Trim(s) == TrimEnd(TrimStart(s))

\* String.prototype.split(sep) for a one-character separator: the pieces
\* between the separators, empty pieces included
RECURSIVE Split(_, _)
Split(s, sep) ==
    IF \A i \in 1..Len(s) : s[i] # sep
    THEN <<s>>
    ELSE LET k == CHOOSE i \in 1..Len(s) :
                      s[i] = sep /\ \A j \in 1..(i - 1) : s[j] # sep
         IN  <<SubSeq(s, 1, k - 1)>> \o Split(SubSeq(s, k + 1, Len(s)), sep)

\* Array.prototype.filter(Boolean) on strings: the empty ones go
RECURSIVE FilterNonEmpty(_)
FilterNonEmpty(ss) ==
    IF ss = <<>> THEN <<>>
    ELSE IF Head(ss) = <<>> THEN FilterNonEmpty(Tail(ss))
    ELSE <<Head(ss)>> \o FilterNonEmpty(Tail(ss))

\* the value of the longest prefix of s made of digits, continuing acc
RECURSIVE DigitsPrefix(_, _)
DigitsPrefix(s, acc) ==
    IF s # <<>> /\ IsDigit(Head(s))
    THEN DigitsPrefix(Tail(s), 10 * acc + DigitValue(Head(s)))
    ELSE acc

\* parseFloat on the characters modelled (no decimal point, no exponent):
\* leading white space is skipped, then an optional sign and the digits
\* that follow; NaN when no digit follows
parseFloat(s) ==
    LET t == TrimStart(s)
        signed == t # <<>> /\ Head(t) \in {"-", "+"}
        body == IF signed THEN Tail(t) ELSE t
        magnitude == DigitsPrefix(body, 0)
    IN  IF body = <<>> \/ ~IsDigit(Head(body)) THEN NaN
        ELSE IF signed /\ Head(t) = "-" THEN Num(-magnitude)
        ELSE Num(magnitude)

\* the loop over the pairs: state[key] = parseFloat(value) when key is not
\* empty and value is defined
RECURSIVE AssignPairs(_, _)
AssignPairs(pairs, state) ==
    IF pairs = <<>> THEN state
    ELSE LET parts == Split(Head(pairs), ":")
             key == parts[1]
             assigned ==
                 IF key # <<>> /\ Len(parts) >= 2
                 THEN [k \in DOMAIN state \cup {key} |->
                          IF k = key THEN parseFloat(parts[2]) ELSE state[k]]
                 ELSE state
         IN  AssignPairs(Tail(pairs), assigned)

KeyH == <<"h">>

KeyBat == <<"b", "a", "t">>

KeyTof == <<"t", "o", "f">>

\* typeof state.h === "number" && typeof state.bat === "number": every value
\* assigned is a number (NaN is of type number), so this is presence
ValidateRequired(state) == KeyH \in DOMAIN state /\ KeyBat \in DOMAIN state

\* parseTelloState(stateStr): the DroneState, or Null
parseTelloState(stateStr) ==
    LET pairs == FilterNonEmpty(Split(Trim(stateStr), ";"))
        state == AssignPairs(pairs, <<>>)
    IN  IF ValidateRequired(state) THEN state ELSE Null

\* ------------------------------------------------------------------------
\* SpecPID: one PID unit under any sequence of calculate and reset calls
\* ------------------------------------------------------------------------
\* calls made on the unit in one behaviour
MaxCalls == 3

\* doubled errors fed to calculate
UnitErrors == {-960, -1, 0, 201, 960}

\* milliseconds between two calls (Date.now() is the wall clock: it may not
\* advance between two calls, and it may step back)
UnitSteps == {-500, 0, 1, 1500, 5000}

UnitConfigs == {ConfigX, ConfigY, ConfigZ}

\* the module-level state right after the script has run: no mission, no
\* telemetry, the link not yet created
InitController ==
    /\ missionController = Null
    /\ aborted = {}
    /\ currentTarget = ""
    /\ now = 0
    /\ navController = NavFresh(0)
    /\ loops = <<>>
    /\ agentWs = Null
    /\ timers = [connect |-> 1, streamon |-> 0]
    /\ sends = <<>>
    /\ lastGood = [last |-> Null, good |-> Null]

\* nothing exercised on its own yet
InitProbes ==
    /\ unitOut = Null
    /\ navOut = Null
    /\ parseOut = Null
    /\ calls = 0
    /\ agent = Null

InitPID ==
    /\ InitController
    /\ InitProbes
    /\ droneState = Null
    /\ \E cfg \in UnitConfigs : unit = [cfg |-> cfg, state |-> PIDFresh(0), trail |-> <<>>]

UnitCalculate(err2, step) ==
    /\ calls < MaxCalls
    /\ calls' = calls + 1
    /\ now' = now + step
    /\ LET c == PIDCalculate(unit.cfg, unit.state, err2, now')
       IN  /\ unit' = [unit EXCEPT !.state = c.state,
                                   !.trail = Append(@, "calculate")]
           /\ unitOut' = [error |-> err2,
                          raw |-> PIDRawOutput(unit.cfg, unit.state, err2,
                                               now' - unit.state.lastTime),
                          output |-> c.output]
    /\ UNCHANGED <<missionController, aborted, currentTarget, droneState, navController,
                   loops, agentWs, sends, navOut, parseOut, timers, lastGood,
                   agent>>

UnitReset(step) ==
    /\ calls < MaxCalls
    /\ calls' = calls + 1
    /\ now' = now + step
    /\ unit' = [unit EXCEPT !.state = PIDReset(unit.state, now'),
                            !.trail = Append(@, "reset")]
    /\ unitOut' = Null
    /\ UNCHANGED <<missionController, aborted, currentTarget, droneState, navController,
                   loops, agentWs, sends, navOut, parseOut, timers, lastGood,
                   agent>>

NextPID ==
    \/ \E err2 \in UnitErrors, step \in UnitSteps : UnitCalculate(err2, step)
    \/ \E step \in UnitSteps : UnitReset(step)

SpecPID == InitPID /\ [][NextPID]_vars

\* C10: every value returned by calculate lies in [minOutput, maxOutput] of
\* the unit, for any sequence of calculate and reset calls, any errors and
\* any elapsed times.
C10_OutputWithinLimits ==
    unitOut # Null =>
        /\ ~RealGtInt(unitOut.output, unit.cfg.maxOutput)
        /\ ~RealLtInt(unitOut.output, unit.cfg.minOutput)

\* a calculate call, made after earlier calls, whose p + i + d was above
\* maxOutput and came back as maxOutput
C10_Witness ==
    /\ unitOut # Null
    /\ calls = MaxCalls
    /\ RealGtInt(unitOut.raw, unit.cfg.maxOutput)
    /\ unitOut.output = RealOfInt(unit.cfg.maxOutput)

\* C25: after every calculate call, for any sequence of errors and elapsed
\* times, the integral accumulator lies in [-100, 100], whatever the output
\* clamp does.
C25_IntegralWithinLimit ==
    /\ unit.state.integral <= INTEGRAL_LIMIT * 2000
    /\ unit.state.integral >= -INTEGRAL_LIMIT * 2000

\* the accumulator stands at its limit after three calculate calls, the
\* last of which returned an output strictly inside the output clamp
C25_Witness ==
    /\ unit.trail = <<"calculate", "calculate", "calculate">>
    /\ unit.state.integral = INTEGRAL_LIMIT * 2000
    /\ RealGtInt(unitOut.output, unit.cfg.minOutput)
    /\ RealLtInt(unitOut.output, unit.cfg.maxOutput)

\* the last call made on the unit was reset()
JustReset == unit.trail # <<>> /\ unit.trail[Len(unit.trail)] = "reset"

\* p = kp * error alone, as a real
ProportionalTerm(cfg, err2) == RealSum(cfg.gains.kp * 1000 * err2, 200000, 0, 1)

\* C26: reset() called twice in a row leaves the unit as one call does
\* (integral 0, last error 0, the timestamp set to the current time),
\* whatever calls preceded it; and a calculate that follows at the same
\* clock value has no derivative and no integral term.
C26_ResetIdempotent ==
    [][ /\ (JustReset' /\ unit' # unit) => unit'.state = PIDFresh(now')
        /\ (JustReset /\ JustReset' /\ unit' # unit) =>
               unit'.state = [unit.state EXCEPT !.lastTime = now']
        /\ (JustReset /\ ~JustReset' /\ now' = now) =>
               /\ unit'.state.integral = 0
               /\ unitOut'.raw = ProportionalTerm(unit.cfg, unitOut'.error)
      ]_vars

\* two resets in a row, at different clock values, after a calculate that
\* had left an integral and a last error
C26_Witness ==
    /\ unit.trail = <<"calculate", "reset", "reset">>
    /\ unit.state = PIDFresh(now)
    /\ now > 0

\* a runMission that takes off at 30 cm as well
NeedsTakeoffAtOrBelow(state) ==
    state = Null \/ NumLess(state[KeyH], Num(TAKEOFF_HEIGHT + 1))

\* !droneState || droneState.h < 30, at the start of runMission
NeedsTakeoff(state) ==
    state = Null \/ NumLess(state[KeyH], Num(TAKEOFF_HEIGHT))

\* ------------------------------------------------------------------------
\* The telemetry listener, stateSocket.on("message")
\* ------------------------------------------------------------------------
\* a listener that stores whatever parseTelloState returns
StoreTelemetryAlways(store, msg) == parseTelloState(msg)

\* droneState after the datagram msg, given droneState before it
StoreTelemetry(store, msg) ==
    LET parsed == parseTelloState(msg)
    IN  IF parsed # Null THEN parsed ELSE store

\* ------------------------------------------------------------------------
\* SpecParse: one telemetry datagram, drawn from the records that can be
\* put together from a few key:value pieces
\* ------------------------------------------------------------------------
\* pieces in one datagram
MaxPairs == 3

\* text: the characters; key: the field the piece sets ("" when it sets
\* none); numeric: whether the value it gives is a number
Piece(text, key, numeric) == [text |-> text, key |-> key, numeric |-> numeric]

Pieces ==
    { Piece(<<"h", ":", "4", "5">>, "h", TRUE),
      Piece(<<"b", "a", "t", ":", "8", "0">>, "bat", TRUE),
      Piece(<<"t", "o", "f", ":", "5", "0">>, "tof", TRUE),
      Piece(<<"h", ":", "a", "b", "c">>, "h", FALSE),
      Piece(<<"b", "a", "t", ":">>, "bat", FALSE),
      Piece(<<"b", "a", "t">>, "", FALSE),
      Piece(<<":", "4", "5">>, "", FALSE),
      Piece(<<>>, "", FALSE) }

\* what follows the last pair: nothing, or the feed's ";\r\n"
Terminators == { <<>>, <<";", "\r", "\n">> }

PieceLists == UNION { [1..n -> Pieces] : n \in 0..MaxPairs }

RECURSIVE JoinPieces(_)
JoinPieces(ps) ==
    IF ps = <<>> THEN <<>>
    ELSE IF Len(ps) = 1 THEN ps[1].text
    ELSE ps[1].text \o <<";">> \o JoinPieces(Tail(ps))

\* a snapshot stored before the datagram arrives: h:10;bat:50
EarlierSnapshot ==
    parseTelloState(<<"h", ":", "1", "0", ";", "b", "a", "t", ":", "5", "0">>)

InitParse ==
    /\ InitController
    /\ InitProbes
    /\ unit = Null
    /\ droneState \in {Null, EarlierSnapshot}

\* the listener runs on the datagram made of the pieces ps and the
\* terminator term
ParseMessage(ps, term) ==
    /\ parseOut = Null
    /\ LET msg == JoinPieces(ps) \o term
       IN  /\ droneState' = StoreTelemetry(droneState, msg)
           /\ parseOut' = [pieces |-> ps, text |-> msg, before |-> droneState,
                           result |-> parseTelloState(msg)]
    /\ UNCHANGED <<missionController, aborted, currentTarget, navController, now,
                   loops, agentWs, sends, unit, unitOut, navOut, timers, lastGood,
                   calls,
                   agent>>

NextParse == \E ps \in PieceLists, term \in Terminators : ParseMessage(ps, term)

SpecParse == InitParse /\ [][NextParse]_vars

\* the last piece of ps that sets key gives it a number
NumericField(ps, key) ==
    \E i \in 1..Len(ps) :
        /\ ps[i].key = key
        /\ ps[i].numeric
        /\ \A j \in (i + 1)..Len(ps) : ps[j].key # key

ExampleValid ==
    <<Piece(<<"h", ":", "4", "5">>, "h", TRUE),
      Piece(<<"b", "a", "t", ":", "8", "0">>, "bat", TRUE),
      Piece(<<"t", "o", "f", ":", "5", "0">>, "tof", TRUE)>>

ExampleNoHeight == <<Piece(<<"b", "a", "t", ":", "8", "0">>, "bat", TRUE)>>

\* C7: parseTelloState yields a snapshot only when the h and bat keys are
\* both present with numeric values; any other record yields no snapshot and
\* leaves the stored one as it was; h:45;bat:80;tof:50 yields height 45 and
\* bat:80 is rejected.
C7_SnapshotOnlyWhenNumeric ==
    parseOut # Null =>
        /\ parseOut.result # Null <=>
               (NumericField(parseOut.pieces, "h") /\ NumericField(parseOut.pieces, "bat"))
        /\ parseOut.result = Null => droneState = parseOut.before
        /\ parseOut.result # Null => droneState = parseOut.result
        /\ parseOut.pieces = ExampleValid =>
               parseOut.result # Null /\ parseOut.result[KeyH] = Num(45)
        /\ parseOut.pieces = ExampleNoHeight => parseOut.result = Null

\* ------------------------------------------------------------------------
\* SpecNav: the commands the controller generates, for any sequence of
\* mission starts and generateCommand calls
\* ------------------------------------------------------------------------
\* mission starts and generateCommand calls in one behaviour
MaxNavCalls == 2

\* boxes in pixels: centred and small, nearly the whole frame, right, left,
\* above and below of the centre, just off centre, the whole frame, two
\* wide boxes above the centre around the landing coverage, two large boxes
\* within the centring tolerance (61 and 53 percent), one right of and above
\* the centre, and one in the lower right corner
NavBoxes ==
    { Box(380, 260, 580, 460), Box(0, 0, 912, 684),
      Box(600, 260, 960, 460), Box(0, 260, 360, 460),
      Box(380, 0, 580, 100), Box(380, 620, 580, 720),
      Box(480, 300, 580, 400), Box(430, 210, 530, 410),
      Box(0, 0, 960, 540), Box(0, 0, 950, 540),
      Box(130, 60, 830, 660), Box(160, 100, 840, 640),
      Box(500, 200, 660, 340), Box(760, 560, 960, 720) }

\* coverage fields given with no box
NavStrayCoverages == {0, 100}

\* a detection as runMission builds it (the coverage of its box), one whose
\* coverage field is at the landing threshold whatever the box, and one
\* without a box
NavDetections ==
    { DetectionData(b, calculateObjectCoverage(DetectionData(b, 0))) : b \in NavBoxes }
        \cup { DetectionData(b, LANDING_COVERAGE) : b \in NavBoxes }
        \cup { DetectionData(Null, c) : c \in NavStrayCoverages }

\* milliseconds between two calls
NavSteps == {0, 1, 1500}

\* telemetry stored when a mission starts: none, h:10;bat:50,
\* h:45;bat:80;tof:50 and h:abc;bat:80
NavSnapshots ==
    { Null, EarlierSnapshot,
      parseTelloState(JoinPieces(ExampleValid)),
      parseTelloState(<<"h", ":", "a", "b", "c", ";", "b", "a", "t", ":", "8", "0">>) }

InitNav ==
    /\ InitController
    /\ InitProbes
    /\ unit = Null
    /\ droneState \in NavSnapshots

\* the start of runMission: navController.reset() and the takeoff
NavMissionStart(step) ==
    /\ calls < MaxNavCalls
    /\ calls' = calls + 1
    /\ now' = now + step
    /\ navController' = NavReset(navController, now')
    /\ navOut' = [kind |-> "start", detection |-> Null, before |-> navController,
                  command |-> IF NeedsTakeoff(droneState) THEN Plain("takeoff") ELSE Null]
    /\ UNCHANGED <<missionController, aborted, currentTarget, droneState, loops,
                   agentWs, sends, unit, unitOut, parseOut, timers, lastGood,
                   agent>>

\* one generateCommand call
NavGenerate(detection, step) ==
    /\ calls < MaxNavCalls
    /\ calls' = calls + 1
    /\ now' = now + step
    /\ LET g == generateCommand(navController, detection, now')
       IN  /\ navController' = g.nav
           /\ navOut' = [kind |-> "policy", detection |-> detection,
                         before |-> navController, command |-> g.command]
    /\ UNCHANGED <<missionController, aborted, currentTarget, droneState, loops,
                   agentWs, sends, unit, unitOut, parseOut, timers, lastGood,
                   agent>>

NextNav ==
    \/ \E step \in NavSteps : NavMissionStart(step)
    \/ \E detection \in NavDetections, step \in NavSteps : NavGenerate(detection, step)

SpecNav == InitNav /\ [][NextNav]_vars

\* the vehicle command grammar: takeoff, land, cw/ccw 1..360,
\* up/down/forward 20..500
InGrammar(c) ==
    \/ c \in {Plain("takeoff"), Plain("land")}
    \/ c.op \in {"cw", "ccw"} /\ 1 <= c.n /\ c.n <= 360
    \/ c.op \in {"up", "down", "forward"} /\ 20 <= c.n /\ c.n <= 500

IsReset(pid) == pid.integral = 0 /\ pid.lastError = 0

\* C5: every command the controller generates itself (the takeoff of a
\* mission start and whatever generateCommand returns, for any detection
\* and any PID history) is takeoff, land, cw/ccw n with 1 <= n <= 360, or
\* up/down/forward n with 20 <= n <= 500.
C5_CommandsInGrammar ==
    (navOut # Null /\ navOut.command # Null) => InGrammar(navOut.command)

\* an altitude command came out of generateCommand after earlier calls
C5_Witness ==
    /\ navOut # Null
    /\ navOut.kind = "policy"
    /\ navOut.command.op \in {"up", "down"}
    /\ calls = MaxNavCalls
    /\ ~IsReset(navOut.before.pidY)

\* C8: with a box present and coverage >= 75, generateCommand returns land
\* whatever the errors and the PID state, and the PID units used for
\* navigation are reset.
C8_LandAtCoverage ==
    ( /\ navOut # Null
      /\ navOut.kind = "policy"
      /\ navOut.detection.object_coordinate # Null
      /\ navOut.detection.object_coverage_percentage >= LANDING_COVERAGE )
    => /\ navOut.command = Plain("land")
       /\ navController.pidX = PIDFresh(now)
       /\ navController.pidY = PIDFresh(now)

\* a box far off centre with the coverage at the threshold, after the PID
\* units had accumulated state
C8_Witness ==
    /\ navOut # Null
    /\ navOut.kind = "policy"
    /\ navOut.detection.object_coordinate # Null
    /\ navOut.detection.object_coverage_percentage = LANDING_COVERAGE
    /\ Abs(ErrorX2(navOut.detection)) > 2 * CENTER_TOLERANCE
    /\ ~IsReset(navOut.before.pidX)
    /\ navOut.command = Plain("land")

\* C9: with the box absent, generateCommand returns cw 30 whatever the
\* coverage field and the PID history, and right afterwards the integral
\* and last error of every PID unit are zero.
C9_SearchWhenAbsent ==
    ( /\ navOut # Null
      /\ navOut.kind = "policy"
      /\ navOut.detection.object_coordinate = Null )
    => /\ navOut.command = Command("cw", SEARCH_ANGLE)
       /\ IsReset(navController.pidX)
       /\ IsReset(navController.pidY)
       /\ IsReset(navController.pidZ)

\* no box, a coverage field above the landing threshold, and PID units
\* that held an integral and a last error before the call
C9_Witness ==
    /\ navOut # Null
    /\ navOut.kind = "policy"
    /\ navOut.detection.object_coordinate = Null
    /\ navOut.detection.object_coverage_percentage >= LANDING_COVERAGE
    /\ navOut.before.pidX.integral # 0
    /\ navOut.before.pidY.lastError # 0
    /\ navOut.command = Command("cw", SEARCH_ANGLE)

\* the box of the last generateCommand call was present, below the landing
\* coverage
Steering ==
    /\ navOut # Null
    /\ navOut.kind = "policy"
    /\ navOut.detection.object_coordinate # Null
    /\ navOut.detection.object_coverage_percentage < LANDING_COVERAGE

\* |horizontal_error| < 50 and |vertical_error| < 50 in that call
Centered ==
    /\ Abs(ErrorX2(navOut.detection)) < 2 * CENTER_TOLERANCE
    /\ Abs(ErrorY2(navOut.detection)) < 2 * CENTER_TOLERANCE

\* |horizontal_error| > |vertical_error| in that call
HorizontalDominates ==
    Abs(ErrorX2(navOut.detection)) > Abs(ErrorY2(navOut.detection))

\* the rotation angle that call derived from the horizontal PID output
RotationAngle ==
    Abs(RealRoundHalf(PIDCalculate(ConfigX, navOut.before.pidX,
                                   ErrorX2(navOut.detection), now).output))

\* the altitude delta that call derived from the vertical PID output
VerticalMove ==
    Abs(RealRound(PIDCalculate(ConfigY, navOut.before.pidY,
                               ErrorY2(navOut.detection), now).output))

\* C21: generateCommand returns a forward command only by the centring
\* rule, that is only when |horizontal_error| < 50 and |vertical_error| < 50;
\* every other rule returns an alignment, search or land command.
C21_ForwardOnlyWhenCentered ==
    (navOut # Null /\ navOut.kind = "policy" /\ navOut.command.op = "forward")
        => (Steering /\ Centered)

\* C22: when the object is not centred, the horizontal error dominates and
\* the rotation angle is below 5 degrees, generateCommand returns up/down
\* when the altitude delta derived from the vertical PID output is at least
\* 20 cm, and the default forward hop only when that delta is below 20 cm
\* as well.
C22_AltitudeAfterSmallRotation ==
    (Steering /\ ~Centered /\ HorizontalDominates /\ RotationAngle < MIN_ROTATION)
        => IF VerticalMove >= MIN_MOVE
           THEN navOut.command.op \in {"up", "down"}
           ELSE navOut.command = Command("forward", MIN_MOVE)

\* C23: with a box present, coverage < 75 and the object not centred,
\* cw/ccw is returned only when |horizontal_error| > |vertical_error| (cw
\* when the object is right of the frame centre, ccw when left, the angle in
\* [5,45]), and up/down only when |vertical_error| >= |horizontal_error| (up
\* when the object is above the frame centre, down when below, the distance
\* in [20,100]).
C23_SingleAxisByLargerError ==
    (Steering /\ ~Centered) =>
        /\ navOut.command.op \in {"cw", "ccw", "up", "down", "forward"}
        /\ navOut.command.op \in {"cw", "ccw"} =>
               /\ HorizontalDominates
               /\ navOut.command.op = "cw" <=> ErrorX2(navOut.detection) > 0
               /\ navOut.command.op = "ccw" <=> ErrorX2(navOut.detection) < 0
               /\ MIN_ROTATION <= navOut.command.n
               /\ navOut.command.n <= MAX_ROTATION
        /\ navOut.command.op \in {"up", "down"} =>
               /\ ~HorizontalDominates
               /\ navOut.command.op = "up" <=> ErrorY2(navOut.detection) > 0
               /\ navOut.command.op = "down" <=> ErrorY2(navOut.detection) < 0
               /\ MIN_MOVE <= navOut.command.n
               /\ navOut.command.n <= MAX_MOVE

\* a turn to the right was returned though the horizontal PID output, driven
\* by the derivative of an error that had been larger, was negative
C23_Witness ==
    /\ Steering
    /\ ~Centered
    /\ navOut.command.op = "cw"
    /\ ErrorY2(navOut.detection) # 0
    /\ RealLtInt(PIDCalculate(ConfigX, navOut.before.pidX,
                              ErrorX2(navOut.detection), now).output, 0)

\* C24: with a box present, coverage c < 75 and both errors below 50 px,
\* generateCommand returns forward d with
\* d = min(100, max(20, round((100 - c) * 1.5))); d does not increase with
\* c; and for the frame 960 x 720 with the box (380,260,580,460) the result
\* is forward 100.
C24_ForwardByCoverage ==
    (Steering /\ Centered) =>
        LET c == navOut.detection.object_coverage_percentage
            d == navOut.command.n
        IN  /\ navOut.command.op = "forward"
            /\ d = MinInt(100, MaxInt(20, (3 * (100 - c) + 1) \div 2))
            /\ \A c2 \in 0..(LANDING_COVERAGE - 1) :
                   /\ c2 >= c => ForwardDist(c2) <= d
                   /\ c2 <= c => ForwardDist(c2) >= d
            /\ ( /\ navOut.detection.object_coordinate = Box(380, 260, 580, 460)
                 /\ c = calculateObjectCoverage(navOut.detection) )
               => navOut.command = Command("forward", 100)

\* a centred box of 61 percent, after earlier calls: (100 - 61) * 1.5 is
\* 58.5 and the hop is 59 cm
C24_Witness ==
    /\ Steering
    /\ Centered
    /\ calls = MaxNavCalls
    /\ navOut.detection.object_coverage_percentage = 61
    /\ navOut.command = Command("forward", 59)

\* the three units of the controller and the configuration the constructor
\* gave each
NavUnits == {"pidX", "pidY", "pidZ"}

NavConfig == [pidX |-> ConfigX, pidY |-> ConfigY, pidZ |-> ConfigZ]

\* the gains table of the README, in hundredths: X (yaw) and Y (altitude)
DocumentedYawGains == PIDGains(15, 1, 5)

DocumentedAltitudeGains == PIDGains(10, 1, 3)

\* the last generateCommand call called calculate(err2) on unit u
FedWith(u, err2) ==
    navController[u] = PIDCalculate(NavConfig[u], navOut.before[u], err2, now).state

\* C39: in a steering call the horizontal error is fed to the unit with the
\* documented yaw gains (0.15, 0.01, 0.05), the vertical error to the unit
\* with the documented altitude gains (0.10, 0.01, 0.03), and the remaining
\* unit is left as it was.
C39_ErrorsFedToDocumentedUnits ==
    Steering =>
        \A u \in NavUnits :
            IF NavConfig[u].gains = DocumentedYawGains
            THEN FedWith(u, ErrorX2(navOut.detection))
            ELSE IF NavConfig[u].gains = DocumentedAltitudeGains
            THEN FedWith(u, ErrorY2(navOut.detection))
            ELSE navController[u] = navOut.before[u]

\* ------------------------------------------------------------------------
\* Spec: the controller.  Every action is one callback of the event loop,
\* run to completion: a listener, a timer, or the stretch of a runMission
\* invocation between two awaits.  sends holds what that callback sent, in
\* order.
\* ------------------------------------------------------------------------
\* start-mission messages in one behaviour of Spec
MaxMissions == 1

\* start-mission messages in one behaviour of SpecRace
MaxRaceMissions == 2

\* detections one runMission invocation turns into commands
MaxMoves == 2

\* ticks of the clock
MaxTicks == 1

\* the clock is read in steps of the detection interval
ClockStep == DETECTION_INTERVAL

\* the label of the n-th start-mission message
Labels == <<"cup", "person", "door", "chair">>

LabelOf(n) == Labels[((n - 1) % Len(Labels)) + 1]

\* a payload of a command message: a string, as its characters
Text(chars) == [text |-> chars]

\* payloads of command messages: "emergency" and "wifi é x"
RawCommands ==
    { Text(<<"e", "m", "e", "r", "g", "e", "n", "c", "y">>),
      Text(<<"w", "i", "f", "i", " ", "é", " ", "x">>) }

Responses == {"ok"}

\* telemetry datagrams: h:45;bat:80;tof:50, h:29;bat:50, h:30;bat:50 and
\* bat:80
StateDatagrams ==
    { JoinPieces(ExampleValid),
      <<"h", ":", "2", "9", ";", "b", "a", "t", ":", "5", "0">>,
      <<"h", ":", "3", "0", ";", "b", "a", "t", ":", "5", "0">>,
      JoinPieces(ExampleNoHeight) }

\* detect.objects[0], normalized coordinates in hundredths: none, a small
\* box at the centre, nearly the whole frame, and a box at the right edge
DetectorObjects ==
    { Null, Box(40, 36, 60, 64), Box(0, 0, 95, 95), Box(70, 40, 100, 60) }

\* Math.round(coords.x_min * FRAME_WIDTH) and its like
ToPixels(c, size) == RoundDiv(c * size, 100)

\* the DetectionData runMission builds before the coverage is computed
BuildDetection(coords) ==
    DetectionData(
        IF coords = Null THEN Null
        ELSE Box(ToPixels(coords.x_min, FRAME_WIDTH), ToPixels(coords.y_min, FRAME_HEIGHT),
                 ToPixels(coords.x_max, FRAME_WIDTH), ToPixels(coords.y_max, FRAME_HEIGHT)),
        0)

\* the bytes of Buffer.from(c) for one character: one byte for an ASCII
\* character, two for é
Utf8Char(c) == IF c = "é" THEN <<"0xC3", "0xA9">> ELSE <<c>>

\* Buffer.from(chars)
RECURSIVE Utf8(_)
Utf8(chars) ==
    IF chars = <<>> THEN <<>> ELSE Utf8Char(Head(chars)) \o Utf8(Tail(chars))

\* the datagram of commandSocket.send(Buffer.from(cmd), 0, cmd.length, ..):
\* the first cmd.length bytes.  The commands the controller writes itself
\* are ASCII, a byte for a character, and go out as they are.
Datagram(cmd) ==
    IF "text" \in DOMAIN cmd
    THEN Text(SubSeq(Utf8(cmd.text), 1, Len(cmd.text)))
    ELSE cmd

\* sendToDrone(cmd); by is the runMission invocation that sends, 0 for a
\* listener or a timer
ToDrone(by, cmd) == [to |-> "drone", by |-> by, cmd |-> Datagram(cmd)]

\* a sendToAgent that does not look at readyState
ToAgentUnchecked(ws, by, msg) ==
    [to |-> "agent", by |-> by, msg |-> msg, sent |-> TRUE]

\* sendToAgent(msg): the message goes out only on an open link
ToAgent(ws, by, msg) ==
    [to |-> "agent", by |-> by, msg |-> msg, sent |-> (ws = [readyState |-> "OPEN"])]

LinkOpen == agentWs = [readyState |-> "OPEN"]

\* the message agentWs.on("message") was called with
FromAgent(msg) == [to |-> "controller", by |-> 0, msg |-> msg]

Init ==
    /\ InitController
    /\ InitProbes
    /\ unit = Null
    /\ droneState = Null

probeVars == <<unit, unitOut, navOut, parseOut, calls, agent>>

\* --- the clock
Tick ==
    /\ now < MaxTicks * ClockStep
    /\ now' = now + ClockStep
    /\ sends' = <<>>
    /\ UNCHANGED <<missionController, aborted, currentTarget, droneState, navController,
                   loops, agentWs, timers, lastGood, probeVars>>

\* --- stateSocket.on("message")
StateMessage(msg) ==
    /\ droneState' = StoreTelemetry(droneState, msg)
    /\ lastGood' = [last |-> msg,
                    good |-> IF parseTelloState(msg) # Null THEN msg ELSE lastGood.good]
    /\ sends' = <<>>
    /\ UNCHANGED <<missionController, aborted, currentTarget, navController, now,
                   loops, agentWs, timers, probeVars>>

\* --- commandSocket.on("message")
DroneResponse(response) ==
    /\ sends' = <<ToAgent(agentWs, 0, [type |-> "response", payload |-> response])>>
    /\ UNCHANGED <<missionController, aborted, currentTarget, droneState, navController,
                   now, loops, agentWs, timers, lastGood, probeVars>>

\* --- the link: connectToAgent and the listeners it installs
\* setTimeout(connectToAgent, ..) fires: agentWs = new WebSocket(agentUrl).
\* The 5 s of a reconnect outlast the 1 s of a streamon timer set before.
ConnectTimer ==
    /\ timers.connect > 0
    /\ timers.streamon = 0
    /\ timers' = [timers EXCEPT !.connect = @ - 1]
    /\ agentWs' = [readyState |-> "CONNECTING"]
    /\ sends' = <<>>
    /\ UNCHANGED <<missionController, aborted, currentTarget, droneState, navController,
                   now, loops, lastGood, probeVars>>

\* agentWs.on("open")
WsOpen ==
    /\ agentWs = [readyState |-> "CONNECTING"]
    /\ agentWs' = [readyState |-> "OPEN"]
    /\ sends' = <<ToDrone(0, Plain("command")), ToDrone(0, Plain("battery?"))>>
    /\ timers' = [timers EXCEPT !.streamon = @ + 1]
    /\ UNCHANGED <<missionController, aborted, currentTarget, droneState, navController,
                   now, loops, lastGood, probeVars>>

\* setTimeout(() => sendToDrone("streamon"), 1000) fires
StreamonTimer ==
    /\ timers.streamon > 0
    /\ timers' = [timers EXCEPT !.streamon = @ - 1]
    /\ sends' = <<ToDrone(0, Plain("streamon"))>>
    /\ UNCHANGED <<missionController, aborted, currentTarget, droneState, navController,
                   now, loops, agentWs, lastGood, probeVars>>

\* a close listener that also ends the mission
WsCloseEndsMission ==
    /\ agentWs # Null
    /\ agentWs' = Null
    /\ timers' = [timers EXCEPT !.connect = @ + 1]
    /\ aborted' = IF missionController = Null THEN aborted
                  ELSE aborted \cup {missionController.id}
    /\ missionController' = Null
    /\ sends' = <<>>
    /\ UNCHANGED <<currentTarget, droneState, navController, now, loops, lastGood,
                   probeVars>>

\* a close listener that schedules no reconnect
WsCloseNoReconnect ==
    /\ agentWs # Null
    /\ agentWs' = Null
    /\ sends' = <<>>
    /\ UNCHANGED <<missionController, aborted, currentTarget, droneState, navController,
                   now, loops, timers, lastGood, probeVars>>

\* agentWs.on("close")
WsClose ==
    /\ agentWs # Null
    /\ agentWs' = Null
    /\ timers' = [timers EXCEPT !.connect = @ + 1]
    /\ sends' = <<>>
    /\ UNCHANGED <<missionController, aborted, currentTarget, droneState, navController,
                   now, loops, lastGood, probeVars>>

\* an error listener that schedules a reconnect of its own
WsErrorReconnects ==
    /\ agentWs # Null
    /\ timers' = [timers EXCEPT !.connect = @ + 1]
    /\ sends' = <<>>
    /\ UNCHANGED <<missionController, aborted, currentTarget, droneState, navController,
                   now, loops, agentWs, lastGood, probeVars>>

\* agentWs.on("error"): the listener logs and changes nothing; the close
\* event of the socket is WsClose
WsError ==
    /\ agentWs # Null
    /\ sends' = <<>>
    /\ UNCHANGED <<missionController, aborted, currentTarget, droneState, navController,
                   now, loops, agentWs, timers, lastGood, probeVars>>

\* --- runMission(signal); the invocation l was given the signal of the
\* AbortController l.  sent and completes count the vehicle commands and
\* the complete reports the invocation has issued so far (history); label
\* is the payload of the start-mission that started it (history); object is
\* the label given to its detector call while that call is pending.
\* a local of runMission that holds nothing yet
Unset == [unset |-> TRUE]

Loop(pc, label) ==
    [pc |-> pc, moveCount |-> 0, object |-> Unset, coords |-> Unset, command |-> Unset,
     label |-> label,
     sent |-> IF pc = "takeoff" THEN 1 ELSE 0, completes |-> 0]

Running(l) == loops[l].pc # "done"

\* a runMission that ends on an abort without navController.reset()
LoopTopKeepsPID(l) ==
    IF l \in aborted
    THEN /\ currentTarget' = ""
         /\ missionController' = Null
         /\ loops' = [loops EXCEPT ![l].pc = "done"]
         /\ UNCHANGED navController
    ELSE /\ loops' = [loops EXCEPT ![l].pc = "capture", ![l].coords = Unset,
                                   ![l].command = Unset]
         /\ UNCHANGED <<navController, currentTarget, missionController>>

\* while (!signal.aborted), reached by the invocation l after a wait: the
\* next takeSnapshot call, or lines 142-148 and the end of runMission
LoopTop(l) ==
    IF l \in aborted
    THEN /\ navController' = NavReset(navController, now)
         /\ currentTarget' = ""
         /\ missionController' = Null
         /\ loops' = [loops EXCEPT ![l].pc = "done"]
    ELSE /\ loops' = [loops EXCEPT ![l].pc = "capture", ![l].coords = Unset,
                                   ![l].command = Unset]
         /\ UNCHANGED <<navController, currentTarget, missionController>>

\* a catch that goes straight back to the capture
CatchErrorNoWait(l) == loops' = [loops EXCEPT ![l].pc = "capture", ![l].object = Unset]

\* catch (err): console.error, then the one second wait
CatchError(l) == loops' = [loops EXCEPT ![l].pc = "errorDelay", ![l].object = Unset]

\* the five seconds after takeoff are over
TakeoffSettled(l) ==
    /\ loops[l].pc = "takeoff"
    /\ LoopTop(l)
    /\ sends' = <<>>
    /\ UNCHANGED <<aborted, droneState, now, agentWs, timers, lastGood, probeVars>>

\* DETECTION_INTERVAL after a command is over
DelayElapsed(l) ==
    /\ loops[l].pc = "delay"
    /\ LoopTop(l)
    /\ sends' = <<>>
    /\ UNCHANGED <<aborted, droneState, now, agentWs, timers, lastGood, probeVars>>

\* the second after a failed cycle is over
ErrorDelayElapsed(l) ==
    /\ loops[l].pc = "errorDelay"
    /\ LoopTop(l)
    /\ sends' = <<>>
    /\ UNCHANGED <<aborted, droneState, now, agentWs, timers, lastGood, probeVars>>

\* takeSnapshot resolves; terminalImage.buffer is called
CaptureDone(l) ==
    /\ loops[l].pc = "capture"
    /\ loops' = [loops EXCEPT ![l].pc = "render"]
    /\ sends' = <<>>
    /\ UNCHANGED <<missionController, aborted, currentTarget, droneState, navController,
                   now, agentWs, timers, lastGood, probeVars>>

\* takeSnapshot rejects (ffmpeg failed)
CaptureFailed(l) ==
    /\ loops[l].pc = "capture"
    /\ CatchError(l)
    /\ sends' = <<>>
    /\ UNCHANGED <<missionController, aborted, currentTarget, droneState, navController,
                   now, agentWs, timers, lastGood, probeVars>>

\* terminalImage.buffer resolves; visionModel.detect is called with
\* object: currentTarget
RenderDone(l) ==
    /\ loops[l].pc = "render"
    /\ loops' = [loops EXCEPT ![l].pc = "detect", ![l].object = currentTarget]
    /\ sends' = <<>>
    /\ UNCHANGED <<missionController, aborted, currentTarget, droneState, navController,
                   now, agentWs, timers, lastGood, probeVars>>

\* terminalImage.buffer rejects
RenderFailed(l) ==
    /\ loops[l].pc = "render"
    /\ CatchError(l)
    /\ sends' = <<>>
    /\ UNCHANGED <<missionController, aborted, currentTarget, droneState, navController,
                   now, agentWs, timers, lastGood, probeVars>>

\* visionModel.detect rejects
DetectFailed(l) ==
    /\ loops[l].pc = "detect"
    /\ CatchError(l)
    /\ sends' = <<>>
    /\ UNCHANGED <<missionController, aborted, currentTarget, droneState, navController,
                   now, agentWs, timers, lastGood, probeVars>>

\* a loop that reports the count it had before the cycle
CycleSendsStaleCount(l, detection, command, moveCount) ==
    <<ToAgent(agentWs, l, [type |-> "detection", detection |-> detection,
                           command |-> command, moveCount |-> moveCount - 1]),
      ToDrone(l, command)>>
    \o IF command = Plain("land")
       THEN <<ToAgent(agentWs, l, [type |-> "complete", moves |-> moveCount - 1,
                                   target |-> currentTarget])>>
       ELSE <<>>

\* a loop that reports complete after every command
CycleSendsAlwaysComplete(l, detection, command, moveCount) ==
    <<ToAgent(agentWs, l, [type |-> "detection", detection |-> detection,
                           command |-> command, moveCount |-> moveCount]),
      ToDrone(l, command),
      ToAgent(agentWs, l, [type |-> "complete", moves |-> moveCount,
                           target |-> currentTarget])>>

\* a loop that sends the command before it reports the detection
CycleSendsCommandFirst(l, detection, command, moveCount) ==
    <<ToDrone(l, command),
      ToAgent(agentWs, l, [type |-> "detection", detection |-> detection,
                           command |-> command, moveCount |-> moveCount])>>
    \o IF command = Plain("land")
       THEN <<ToAgent(agentWs, l, [type |-> "complete", moves |-> moveCount,
                                   target |-> currentTarget])>>
       ELSE <<>>

\* the two reports and the command of lines 117-131
CycleSends(l, detection, command, moveCount) ==
    <<ToAgent(agentWs, l, [type |-> "detection", detection |-> detection,
                           command |-> command, moveCount |-> moveCount]),
      ToDrone(l, command)>>
    \o IF command = Plain("land")
       THEN <<ToAgent(agentWs, l, [type |-> "complete", moves |-> moveCount,
                                   target |-> currentTarget])>>
       ELSE <<>>

\* a cycle that goes on to the next capture without the wait of line 134
DetectDoneNoWait(l, coords) ==
    /\ loops[l].pc = "detect"
    /\ LET built == BuildDetection(coords)
       IN  IF CoverageThrows(built)
           THEN /\ loops' = [loops EXCEPT ![l].pc = "errorDelay", ![l].object = Unset,
                                           ![l].coords = coords]
                /\ sends' = <<>>
                /\ UNCHANGED <<missionController, currentTarget, navController>>
           ELSE LET detection == [built EXCEPT !.object_coverage_percentage =
                                                   calculateObjectCoverage(built)]
                    moveCount == loops[l].moveCount + 1
                    g == generateCommand(navController, detection, now)
                    landed == g.command = Plain("land")
                IN  /\ loops[l].moveCount < MaxMoves
                    /\ sends' = CycleSends(l, detection, g.command, moveCount)
                    /\ loops' = [loops EXCEPT
                                    ![l].pc = IF landed THEN "done" ELSE "capture",
                                    ![l].moveCount = moveCount,
                                    ![l].object = Unset,
                                    ![l].coords = coords,
                                    ![l].command = g.command,
                                    ![l].sent = @ + 1,
                                    ![l].completes = IF landed THEN @ + 1 ELSE @]
                    /\ IF landed
                       THEN /\ navController' = NavReset(g.nav, now)
                            /\ currentTarget' = ""
                            /\ missionController' = Null
                       ELSE /\ navController' = g.nav
                            /\ UNCHANGED <<currentTarget, missionController>>
    /\ UNCHANGED <<aborted, droneState, now, agentWs, timers, lastGood, probeVars>>

\* visionModel.detect resolves with coords as its first object (Null when
\* it found none): lines 88-134, up to the next await or to the end of
\* runMission
DetectDone(l, coords) ==
    /\ loops[l].pc = "detect"
    /\ LET built == BuildDetection(coords)
       IN  IF CoverageThrows(built)
           THEN /\ loops' = [loops EXCEPT ![l].pc = "errorDelay", ![l].object = Unset,
                                           ![l].coords = coords]
                /\ sends' = <<>>
                /\ UNCHANGED <<missionController, currentTarget, navController>>
           ELSE LET detection == [built EXCEPT !.object_coverage_percentage =
                                                   calculateObjectCoverage(built)]
                    moveCount == loops[l].moveCount + 1
                    g == generateCommand(navController, detection, now)
                    landed == g.command = Plain("land")
                IN  /\ loops[l].moveCount < MaxMoves
                    /\ sends' = CycleSends(l, detection, g.command, moveCount)
                    /\ loops' = [loops EXCEPT
                                    ![l].pc = IF landed THEN "done" ELSE "delay",
                                    ![l].moveCount = moveCount,
                                    ![l].object = Unset,
                                    ![l].coords = coords,
                                    ![l].command = g.command,
                                    ![l].sent = @ + 1,
                                    ![l].completes = IF landed THEN @ + 1 ELSE @]
                    /\ IF landed
                       THEN /\ navController' = NavReset(g.nav, now)
                            /\ currentTarget' = ""
                            /\ missionController' = Null
                       ELSE /\ navController' = g.nav
                            /\ UNCHANGED <<currentTarget, missionController>>
    /\ UNCHANGED <<aborted, droneState, now, agentWs, timers, lastGood, probeVars>>

\* --- agentWs.on("message")
\* case "start-mission", with runMission up to its first await
StartMissionWithin(limit) ==
    /\ LinkOpen
    /\ Len(loops) < limit
    /\ LET l == Len(loops) + 1
           label == LabelOf(l)
           takeoff == NeedsTakeoff(droneState)
       IN  /\ currentTarget' = label
           /\ aborted' = IF missionController = Null THEN aborted
                         ELSE aborted \cup {missionController.id}
           /\ missionController' = [id |-> l]
           /\ navController' = NavReset(navController, now)
           /\ sends' = <<FromAgent([type |-> "start-mission", payload |-> label])>>
                       \o IF takeoff THEN <<ToDrone(l, Plain("takeoff"))>> ELSE <<>>
           /\ loops' = Append(loops, Loop(IF takeoff THEN "takeoff" ELSE "capture", label))
    /\ UNCHANGED <<droneState, now, agentWs, timers, lastGood, probeVars>>

\* a stop-mission that resets without asking whether a mission is there
StopMissionUnconditional ==
    /\ LinkOpen
    /\ aborted' = IF missionController = Null THEN aborted
                  ELSE aborted \cup {missionController.id}
    /\ missionController' = Null
    /\ currentTarget' = ""
    /\ navController' = NavReset(navController, now)
    /\ sends' = <<FromAgent([type |-> "stop-mission"])>>
    /\ UNCHANGED <<droneState, now, loops, agentWs, timers, lastGood, probeVars>>

\* case "stop-mission"
StopMission ==
    /\ LinkOpen
    /\ IF missionController # Null
       THEN /\ aborted' = aborted \cup {missionController.id}
            /\ missionController' = Null
            /\ currentTarget' = ""
            /\ navController' = NavReset(navController, now)
       ELSE UNCHANGED <<aborted, missionController, currentTarget, navController>>
    /\ sends' = <<FromAgent([type |-> "stop-mission"])>>
    /\ UNCHANGED <<droneState, now, loops, agentWs, timers, lastGood, probeVars>>

\* case "complete"
CompleteMessage ==
    /\ LinkOpen
    /\ aborted' = IF missionController = Null THEN aborted
                  ELSE aborted \cup {missionController.id}
    /\ missionController' = Null
    /\ currentTarget' = ""
    /\ navController' = NavReset(navController, now)
    /\ sends' = <<FromAgent([type |-> "complete"])>>
    /\ UNCHANGED <<droneState, now, loops, agentWs, timers, lastGood, probeVars>>

\* case "command"
CommandMessage(payload) ==
    /\ LinkOpen
    /\ sends' = <<FromAgent([type |-> "command", payload |-> payload]), ToDrone(0, payload)>>
    /\ UNCHANGED <<missionController, aborted, currentTarget, droneState, navController,
                   now, loops, agentWs, timers, lastGood, probeVars>>

StartMission == StartMissionWithin(MaxMissions)

Next ==
    \/ Tick
    \/ \E msg \in StateDatagrams : StateMessage(msg)
    \/ \E response \in Responses : DroneResponse(response)
    \/ ConnectTimer
    \/ WsOpen
    \/ StreamonTimer
    \/ WsClose
    \/ WsError
    \/ StartMission
    \/ StopMission
    \/ CompleteMessage
    \/ \E payload \in RawCommands : CommandMessage(payload)
    \/ \E l \in 1..Len(loops) : TakeoffSettled(l)
    \/ \E l \in 1..Len(loops) : DelayElapsed(l)
    \/ \E l \in 1..Len(loops) : ErrorDelayElapsed(l)
    \/ \E l \in 1..Len(loops) : CaptureDone(l)
    \/ \E l \in 1..Len(loops) : CaptureFailed(l)
    \/ \E l \in 1..Len(loops) : RenderDone(l)
    \/ \E l \in 1..Len(loops) : RenderFailed(l)
    \/ \E l \in 1..Len(loops) : DetectFailed(l)
    \/ \E l \in 1..Len(loops) : \E coords \in DetectorObjects : DetectDone(l, coords)

Spec == Init /\ [][Next]_vars

\* the runMission invocations so far
Missions == 1..Len(loops)

\* what the last step sent
Sent == {sends[i] : i \in 1..Len(sends)}

\* a vehicle command sent by a runMission invocation
IsLoopCommand(e) == e.to = "drone" /\ e.by > 0

\* a complete report handed to sendToAgent by a runMission invocation
IsComplete(e) == e.to = "agent" /\ e.by > 0 /\ e.msg.type = "complete"

\* C3: in a cycle in which takeSnapshot and visionModel.detect both
\* succeeded (coords holds the detector's answer), the loop has sent a
\* command, and the command is cw 30 when the detector found no object.
C3_OneCommandPerCycle ==
    \A l \in Missions :
        loops[l].coords # Unset =>
            /\ loops[l].command # Unset
            /\ loops[l].coords = Null => loops[l].command = Command("cw", SEARCH_ANGLE)

\* the takeoffs a runMission invocation has sent: its commands that were
\* not counted as moves
Takeoffs(l) == loops[l].sent - loops[l].moveCount

\* no snapshot is stored, or the stored height is a number below 30
BelowTakeoffHeight ==
    \/ droneState = Null
    \/ ~droneState[KeyH].nan /\ droneState[KeyH].v < 30

\* the step handles a start-mission message: the invocation l begins
MissionStarts(l) == Len(loops) = l - 1 /\ Len(loops') = l

\* C27: within one runMission invocation the cycles follow one another: a
\* frame capture starts only when a wait (after the takeoff, after the
\* command of the cycle before, or after a failed cycle) has finished; the
\* capture, the rendering and the detector call are made one after the
\* other; and a step of the invocation sends at most one navigation
\* command, out of the detector's answer, and then waits or ends.
C27_CyclesInSequence ==
    [][\A l \in Missions :
          /\ (loops[l].pc # "capture" /\ loops'[l].pc = "capture") =>
                 loops[l].pc \in {"takeoff", "delay", "errorDelay"}
          /\ (loops[l].pc = "capture" /\ loops'[l].pc # "capture") =>
                 loops'[l].pc \in {"render", "errorDelay"}
          /\ (loops[l].pc = "render" /\ loops'[l].pc # "render") =>
                 loops'[l].pc \in {"detect", "errorDelay"}
          /\ (loops[l].pc = "detect" /\ loops'[l].pc # "detect") =>
                 loops'[l].pc \in {"delay", "errorDelay", "done"}
          /\ Cardinality({i \in 1..Len(sends') :
                              IsLoopCommand(sends'[i]) /\ sends'[i].by = l}) <= 1
          /\ (\E i \in 1..Len(sends') : IsLoopCommand(sends'[i]) /\ sends'[i].by = l) =>
                 /\ loops[l].pc = "detect"
                 /\ loops'[l].pc \in {"delay", "done"}
      ]_vars

\* an invocation that has sent MaxMoves navigation commands, waited after
\* the last of them, and is now in the capture of its next cycle
C27_Witness ==
    \E l \in Missions :
        /\ loops[l].moveCount = MaxMoves
        /\ loops[l].sent >= MaxMoves
        /\ loops[l].pc = "capture"

\* C11: the start of a mission sends takeoff exactly when no snapshot is
\* stored or the stored height is below 30 cm, and then waits; an
\* invocation sends takeoff at most once, only at its start, before any
\* capture, and leaves the wait for its first cycle in a step of its own.
C11_TakeoffWhenLow ==
    /\ [][\A l \in 1..Len(loops') :
            MissionStarts(l) =>
                /\ (ToDrone(l, Plain("takeoff")) \in {sends'[i] : i \in 1..Len(sends')})
                       <=> BelowTakeoffHeight
                /\ loops'[l].pc = IF BelowTakeoffHeight THEN "takeoff" ELSE "capture"
                /\ loops'[l].sent = IF BelowTakeoffHeight THEN 1 ELSE 0]_vars
    /\ [][\A l \in Missions :
            /\ loops[l].pc = "takeoff" /\ loops'[l].pc # "takeoff" =>
                   /\ loops'[l].pc \in {"capture", "done"}
                   /\ \A i \in 1..Len(sends') : sends'[i].by # l
            /\ \A i \in 1..Len(sends') : sends'[i] # ToDrone(l, Plain("takeoff"))]_vars
    /\ [](\A l \in Missions :
            /\ Takeoffs(l) \in {0, 1}
            /\ loops[l].pc = "takeoff" =>
                   /\ Takeoffs(l) = 1
                   /\ loops[l].moveCount = 0
                   /\ loops[l].coords = Unset)

\* a mission started over a stored height of 29 cm is in its takeoff wait,
\* the takeoff just sent
C11_Witness ==
    /\ droneState # Null
    /\ droneState[KeyH] = Num(29)
    /\ \E l \in Missions :
          /\ loops[l].pc = "takeoff"
          /\ sends = <<FromAgent([type |-> "start-mission", payload |-> loops[l].label]),
                       ToDrone(l, Plain("takeoff"))>>

\* the step handles the orchestrator message msg
Handles(msg) ==
    /\ Len(sends') >= 1
    /\ sends'[1].to = "controller"
    /\ sends'[1].msg.type = msg.type
    /\ sends'[1] = FromAgent(msg)

\* C12: a stop-mission message handled while missionController is null
\* leaves the handle, the target, the PID states, the telemetry store and
\* the running invocations as they were and sends nothing.
C12_StopWithoutMission ==
    [][(missionController = Null /\ Handles([type |-> "stop-mission"])) =>
          /\ Len(sends') = 1
          /\ UNCHANGED <<missionController, currentTarget, navController, droneState,
                         aborted, loops>>]_vars

\* a stop-mission message has just been handled though nothing was ever
\* aborted; the PID states still carry an earlier time and a snapshot is
\* stored
C12_Witness ==
    /\ sends = <<FromAgent([type |-> "stop-mission"])>>
    /\ aborted = {}
    /\ missionController = Null
    /\ currentTarget = ""
    /\ navController.pidX.lastTime < now
    /\ droneState # Null

\* C14: when takeSnapshot or visionModel.detect rejects, the step sends
\* nothing, aborts nothing, leaves handle, target and move count alone and
\* puts the loop into the one second wait; a loop in that wait has sent no
\* command in the cycle and leaves the wait only for the loop condition.
C14_FailedCycleWaits ==
    /\ [][\A l \in Missions :
            (CaptureFailed(l) \/ DetectFailed(l)) =>
                /\ loops'[l].pc = "errorDelay"
                /\ sends' = <<>>
                /\ loops'[l].moveCount = loops[l].moveCount
                /\ loops'[l].sent = loops[l].sent
                /\ UNCHANGED <<aborted, missionController, currentTarget, navController>>]_vars
    /\ [][\A l \in Missions :
            (loops[l].pc = "errorDelay" /\ loops'[l].pc # "errorDelay") =>
                /\ sends' = <<>>
                /\ loops'[l].pc = IF l \in aborted THEN "done" ELSE "capture"]_vars
    /\ [](\A l \in Missions : loops[l].pc = "errorDelay" => loops[l].command = Unset)

\* after one command the second cycle of a mission failed before the
\* detector answered: the loop is in the one second wait, the mission is
\* still the current one
C14_Witness ==
    \E l \in Missions :
        /\ loops[l].pc = "errorDelay"
        /\ loops[l].coords = Unset
        /\ loops[l].command = Unset
        /\ loops[l].moveCount = 1
        /\ missionController = [id |-> l]
        /\ l \notin aborted
        /\ sends = <<>>

\* C16: the step in which the link goes down leaves the handle, the
\* abort flags, the target, the PID states and every runMission invocation
\* as they were.
C16_CloseLeavesMission ==
    [][(agentWs # Null /\ agentWs' = Null) =>
          UNCHANGED <<missionController, aborted, currentTarget, navController, loops>>]_vars

\* with the link down, the current mission has just sent its second move
\* to the vehicle; its detection report was not sent
C16_Witness ==
    /\ agentWs = Null
    /\ \E l \in Missions :
          /\ missionController = [id |-> l]
          /\ l \notin aborted
          /\ loops[l].pc = "delay"
          /\ loops[l].moveCount = 2
          /\ Len(sends) = 2
          /\ sends[1].to = "agent" /\ sends[1].msg.type = "detection" /\ ~sends[1].sent
          /\ sends[2] = ToDrone(l, loops[l].command)

\* C17: the step in which an aborted runMission invocation ends without
\* having landed hands a message for the orchestrator to sendToAgent.
C17_AbortReported ==
    [][\A l \in Missions :
          (Running(l) /\ loops'[l].pc = "done" /\ loops'[l].completes = 0) =>
              \E i \in 1..Len(sends') : sends'[i].to = "agent"]_vars

\* C18: the step that handles a command message sends one datagram to the
\* vehicle, the bytes of its payload, all of them, and sends nothing else;
\* it leaves the handle, the abort flags, the target, the PID states, the
\* telemetry store and the runMission invocations as they were.
C18_CommandForwarded ==
    [][\A payload \in RawCommands :
          Handles([type |-> "command", payload |-> payload]) =>
              /\ sends' = <<FromAgent([type |-> "command", payload |-> payload]),
                            [to |-> "drone", by |-> 0, cmd |-> Text(Utf8(payload.text))]>>
              /\ UNCHANGED <<missionController, aborted, currentTarget, navController,
                             droneState, loops>>]_vars

\* the places in the sends of the step at which the invocation l hands a
\* detection report to sendToAgent, sends a move to the vehicle, hands over
\* a complete report
DetectionReports(l) ==
    {i \in 1..Len(sends') : /\ sends'[i].to = "agent"
                            /\ sends'[i].by = l
                            /\ sends'[i].msg.type = "detection"}

Moves(l) ==
    {i \in 1..Len(sends') : /\ sends'[i].to = "drone"
                            /\ sends'[i].by = l
                            /\ sends'[i].cmd # Plain("takeoff")}

CompleteReports(l) ==
    {i \in 1..Len(sends') : /\ sends'[i].to = "agent"
                            /\ sends'[i].by = l
                            /\ sends'[i].msg.type = "complete"}

\* C20: a mission starts with the count 0; a step of its loop either makes
\* no detection report, sends no move and keeps the count, or adds one to
\* the count, makes one detection report and sends one move, the report
\* and a complete report, if there is one, carrying the new count.
C20_CountsMatchMoves ==
    /\ [][\A l \in 1..Len(loops') : MissionStarts(l) => loops'[l].moveCount = 0]_vars
    /\ [][\A l \in Missions :
            IF DetectionReports(l) \cup Moves(l) \cup CompleteReports(l) = {}
            THEN loops'[l].moveCount = loops[l].moveCount
            ELSE /\ loops'[l].moveCount = loops[l].moveCount + 1
                 /\ Cardinality(DetectionReports(l)) = 1
                 /\ Cardinality(Moves(l)) = 1
                 /\ Cardinality(CompleteReports(l)) <= 1
                 /\ \A i \in DetectionReports(l) :
                        sends'[i].msg.moveCount = loops'[l].moveCount
                 /\ \A i \in CompleteReports(l) :
                        sends'[i].msg.moves = loops'[l].moveCount]_vars

\* a mission that took off has just landed with its second move: detection
\* and complete report both carry 2, and three commands went to the vehicle
C20_Witness ==
    \E l \in Missions :
        /\ loops[l].moveCount = 2
        /\ loops[l].sent = 3
        /\ Len(sends) = 3
        /\ sends[1].to = "agent" /\ sends[1].msg.type = "detection"
        /\ sends[1].msg.moveCount = 2
        /\ sends[2] = ToDrone(l, Plain("land"))
        /\ IsComplete(sends[3]) /\ sends[3].msg.moves = 2

\* C32: in a cycle that produces a command, the detection report with that
\* command and the cycle count is handed to sendToAgent right before the
\* command goes to the vehicle, and it goes out when the link is open; a
\* complete report follows the land command of the same cycle.
C32_ReportBeforeCommand ==
    \A i \in 1..Len(sends) :
        /\ (IsLoopCommand(sends[i]) /\ sends[i].cmd # Plain("takeoff")) =>
               /\ i > 1
               /\ sends[i - 1].to = "agent"
               /\ sends[i - 1].by = sends[i].by
               /\ sends[i - 1].msg.type = "detection"
               /\ sends[i - 1].msg.command = sends[i].cmd
               /\ sends[i - 1].msg.moveCount = loops[sends[i].by].moveCount
               /\ sends[i - 1].sent <=> LinkOpen
        /\ IsComplete(sends[i]) =>
               \E j \in 1..(i - 1) : sends[j] = ToDrone(sends[i].by, Plain("land"))

\* the second cycle of a mission, the link open: the report of forward 100
\* with the count 2 went out, then the command
C32_Witness ==
    /\ Len(sends) = 2
    /\ sends[1].to = "agent" /\ sends[1].sent
    /\ sends[1].msg.type = "detection"
    /\ sends[1].msg.moveCount = 2
    /\ sends[2] = ToDrone(sends[1].by, Command("forward", 100))

\* C33: reports are never queued: what sendToAgent is given while the link
\* is not open is dropped; a step that opens, closes or re-creates the link
\* hands nothing to the orchestrator; and the complete report of a mission
\* appears in the step in which it lands and in no later one.
C33_ReportsNeverQueued ==
    [][ /\ \A i \in 1..Len(sends') :
               sends'[i].to = "agent" => (sends'[i].sent <=> LinkOpen)
        /\ agentWs' # agentWs =>
               \A i \in 1..Len(sends') : sends'[i].to # "agent"
        /\ \A l \in Missions :
               loops[l].completes = 1 =>
                   \A i \in 1..Len(sends') : ~(IsComplete(sends'[i]) /\ sends'[i].by = l)
      ]_vars

\* a mission has just landed while the link was down: its complete report
\* was dropped
C33_Witness ==
    /\ ~LinkOpen
    /\ \E e \in Sent : IsComplete(e) /\ ~e.sent /\ loops[e.by].completes = 1

\* C34: after any sequence of open, close and error events there is at
\* most one orchestrator connection, open or being established, and at most
\* one pending reconnect timer; no reconnect timer is pending while a
\* connection exists, so connectToAgent never replaces a live socket.
C34_OneConnection ==
    /\ timers.connect <= 1
    /\ agentWs # Null => timers.connect = 0
    /\ agentWs # Null => agentWs.readyState \in {"CONNECTING", "OPEN"}

\* a mission was started over an open link, the link closed, and the
\* reconnect timer has fired: the second connection is being established
C34_Witness ==
    /\ Len(loops) = 1
    /\ agentWs = [readyState |-> "CONNECTING"]
    /\ timers.connect = 0

\* C6: droneState is the parse of the latest datagram parseTelloState
\* accepted, whatever was received after it; before the first accepted
\* datagram it is empty, after it never again.
C6_StoreHoldsLatestParsed ==
    IF lastGood.good = Null
    THEN droneState = Null
    ELSE droneState # Null /\ parseTelloState(lastGood.good) = droneState

\* a snapshot was stored, the latest datagram was rejected, a mission has
\* run to its end and the link is down, waiting for the reconnect
C6_Witness ==
    /\ lastGood.good # Null
    /\ lastGood.last # lastGood.good
    /\ parseTelloState(lastGood.last) = Null
    /\ parseTelloState(lastGood.good) = droneState
    /\ \E l \in Missions : loops[l].pc = "done" /\ loops[l].completes = 1
    /\ agentWs = Null
    /\ timers.connect > 0

\* ------------------------------------------------------------------------
\* SpecCoverage: calculateObjectCoverage on boxes in and beyond the frame
\* ------------------------------------------------------------------------
MaxCoverageCalls == 1

\* corner coordinates, in pixels
CoverageXs == {0, 380, 552, 580, 912, 960, 1920}

CoverageYs == {0, 260, 460, 684, 720}

\* the boxes with x_min < x_max and y_min < y_max
CoverageBoxes ==
    { b \in [x_min : CoverageXs, y_min : CoverageYs, x_max : CoverageXs, y_max : CoverageYs] :
        b.x_min < b.x_max /\ b.y_min < b.y_max }

InitCoverage ==
    /\ InitController
    /\ InitProbes
    /\ unit = Null
    /\ droneState = Null

\* one calculateObjectCoverage call
CoverageCall(box) ==
    /\ calls < MaxCoverageCalls
    /\ calls' = calls + 1
    /\ navOut' = [box |-> box,
                  coverage |-> calculateObjectCoverage(DetectionData(box, 0))]
    /\ UNCHANGED <<missionController, aborted, currentTarget, droneState, navController,
                   now, loops, agentWs, sends, unit, unitOut, parseOut, timers, lastGood,
                   agent>>

NextCoverage == \E box \in CoverageBoxes : CoverageCall(box)

SpecCoverage == InitCoverage /\ [][NextCoverage]_vars

\* C19: for a box with x_min < x_max and y_min < y_max on the 960 x 720
\* frame the coverage is an integer from 0 to 100, the share of the frame
\* area in percent rounded to the nearest integer (a half upwards); the
\* box (0,0,912,684) gives 90 and the box (380,260,580,460) gives 6.
C19_CoverageIsRoundedShare ==
    navOut # Null =>
        LET box == navOut.box
            area == (box.x_max - box.x_min) * (box.y_max - box.y_min)
        IN  /\ navOut.coverage \in 0..100
            /\ navOut.coverage = RoundDiv(100 * area, FRAME_WIDTH * FRAME_HEIGHT)
            /\ box = Box(0, 0, 912, 684) => navOut.coverage = 90
            /\ box = Box(380, 260, 580, 460) => navOut.coverage = 6

\* ------------------------------------------------------------------------
\* SpecLive: the controller with its timers: a setTimeout callback that is
\* due is run.
\* ------------------------------------------------------------------------
linkVars == <<agentWs, timers>>

SpecLive ==
    Init /\ [][Next]_vars /\ WF_linkVars(ConnectTimer) /\ WF_linkVars(StreamonTimer)

\* C15: whenever the link is closed a connection attempt follows; a link
\* that opens sends command first and arms the streamon timer; and after
\* command, streamon is sent.
C15_ReconnectsAndRearms ==
    /\ (agentWs = Null) ~> (agentWs = [readyState |-> "CONNECTING"])
    /\ [][(~LinkOpen /\ agentWs' = [readyState |-> "OPEN"]) =>
              /\ sends'[1] = ToDrone(0, Plain("command"))
              /\ timers'.streamon = timers.streamon + 1]_linkVars
    /\ (ToDrone(0, Plain("command")) \in Sent) ~> (sends = <<ToDrone(0, Plain("streamon"))>>)

\* the link of a controller that has started a mission, so had an open
\* link, is connecting again, the streamon of the earlier session sent
C15_Witness ==
    /\ Len(loops) > 0
    /\ agentWs = [readyState |-> "CONNECTING"]
    /\ timers = [connect |-> 0, streamon |-> 0]

\* ------------------------------------------------------------------------
\* SpecRace: missions that replace one another.  The link is open and
\* stays open, the telemetry stored does not change.
\* ------------------------------------------------------------------------
InitRace ==
    /\ missionController = Null
    /\ aborted = {}
    /\ currentTarget = ""
    /\ now = 0
    /\ navController = NavFresh(0)
    /\ loops = <<>>
    /\ agentWs = [readyState |-> "OPEN"]
    /\ timers = [connect |-> 0, streamon |-> 0]
    /\ sends = <<>>
    /\ InitProbes
    /\ unit = Null
    /\ \E msg \in {Null, JoinPieces(ExampleValid)} :
           /\ lastGood = [last |-> msg, good |-> msg]
           /\ droneState = IF msg = Null THEN Null ELSE parseTelloState(msg)

RaceStartMission == StartMissionWithin(MaxRaceMissions)

NextRace ==
    \/ Tick
    \/ RaceStartMission
    \/ StopMission
    \/ CompleteMessage
    \/ \E l \in 1..Len(loops) : TakeoffSettled(l)
    \/ \E l \in 1..Len(loops) : DelayElapsed(l)
    \/ \E l \in 1..Len(loops) : ErrorDelayElapsed(l)
    \/ \E l \in 1..Len(loops) : CaptureDone(l)
    \/ \E l \in 1..Len(loops) : CaptureFailed(l)
    \/ \E l \in 1..Len(loops) : RenderDone(l)
    \/ \E l \in 1..Len(loops) : RenderFailed(l)
    \/ \E l \in 1..Len(loops) : DetectFailed(l)
    \/ \E l \in 1..Len(loops) : \E coords \in DetectorObjects : DetectDone(l, coords)

SpecRace == InitRace /\ [][NextRace]_vars

\* all three PID units hold zero integral and zero last error
NavIsReset(nav) == IsReset(nav.pidX) /\ IsReset(nav.pidY) /\ IsReset(nav.pidZ)

\* C13: the step in which a runMission invocation ends leaves the PID
\* units reset, the handle null and the target empty; and whenever no
\* invocation is running, the handle is null, the target is empty and the
\* PID units are reset.
C13_IdleWhenNoLoop ==
    /\ [][\A l \in Missions :
            (Running(l) /\ loops'[l].pc = "done") =>
                /\ NavIsReset(navController')
                /\ missionController' = Null
                /\ currentTarget' = ""]_vars
    /\ []((\A l \in Missions : ~Running(l)) =>
            /\ missionController = Null
            /\ currentTarget = ""
            /\ NavIsReset(navController))

\* two missions have run and ended, one cancelled after it had moved and
\* one by landing, and the controller is idle
C13_Witness ==
    /\ Len(loops) = 2
    /\ \A l \in Missions : ~Running(l)
    /\ \E l \in Missions : l \in aborted /\ loops[l].moveCount > 0 /\ loops[l].completes = 0
    /\ \E l \in Missions : loops[l].completes = 1
    /\ missionController = Null
    /\ NavIsReset(navController)

\* C1: when a runMission invocation sends a command to the vehicle, no
\* invocation started after it has sent one (its takeoff included): two
\* loops never both send commands.
C1_NoTwoLoopsSend ==
    \A e \in Sent :
        IsLoopCommand(e) => \A later \in (e.by + 1)..Len(loops) : loops[later].sent = 0

\* C2: a runMission invocation whose signal is aborted sends no command
\* to the vehicle, wherever the abort found it.
C2_NoCommandAfterAbort ==
    \A e \in Sent : IsLoopCommand(e) => e.by \notin aborted

\* C4: a loop hands a complete report to sendToAgent exactly in the step
\* in which it sends land, right after it; it does so at most once; and
\* once it has, land stays the last command it generated and the loop is
\* over.
C4_CompleteIffLand ==
    /\ \A i \in 1..Len(sends) :
          /\ IsComplete(sends[i]) =>
                i > 1 /\ sends[i - 1] = ToDrone(sends[i].by, Plain("land"))
          /\ (IsLoopCommand(sends[i]) /\ sends[i].cmd = Plain("land")) =>
                i < Len(sends) /\ IsComplete(sends[i + 1]) /\ sends[i + 1].by = sends[i].by
    /\ \A l \in Missions :
          /\ loops[l].completes <= 1
          /\ loops[l].completes = 1 <=>
                (loops[l].pc = "done" /\ loops[l].command = Plain("land"))
          /\ loops[l].command = Plain("land") => loops[l].pc = "done"

\* a second mission has replaced the first, and one of the two has just
\* sent land after an earlier move and reported complete
C4_Witness ==
    /\ Len(loops) = 2
    /\ \E l \in Missions :
          /\ loops[l].moveCount = 2
          /\ loops[l].completes = 1
          /\ ToDrone(l, Plain("land")) \in Sent
          /\ \E e \in Sent : IsComplete(e) /\ e.by = l

\* a runMission invocation that has neither ended nor been aborted
Active(l) == Running(l) /\ l \notin aborted

\* C29: while a runMission invocation is running and not yet aborted, the
\* handle missionController is the AbortController whose signal it was
\* given, so that a stop-mission received then aborts it; also when its
\* start-mission replaced an earlier mission that was running.
C29_HandleRefersToRunningLoop ==
    /\ [](\A l \in Missions : Active(l) => missionController = [id |-> l])
    /\ [][sends' = <<FromAgent([type |-> "stop-mission"])>> =>
             \A l \in Missions : Running(l) => l \in aborted']_vars

\* C30: while the mission started with label L is running, currentTarget
\* is L and every detector call of its loop is given L; and the end of
\* another runMission invocation neither changes the target nor resets
\* the PID units the running mission steers with.
C30_TargetKept ==
    /\ [](\A l \in Missions :
             Active(l) =>
                 /\ currentTarget = loops[l].label
                 /\ loops[l].pc = "detect" => loops[l].object = loops[l].label)
    /\ [][\A l \in Missions : \A other \in Missions \ {l} :
             (Active(l) /\ Running(other) /\ loops'[other].pc = "done") =>
                 UNCHANGED <<currentTarget, navController>>]_vars

\* C31: the target of a complete report is the label of the start-mission
\* message that started the mission whose loop sent land.
C31_CompleteNamesItsMission ==
    \A e \in Sent : IsComplete(e) => e.msg.target = loops[e.by].label

\* ------------------------------------------------------------------------
\* SpecInbox: SpecRace, with orchestrator messages the listener has no use
\* for arriving among the others
\* ------------------------------------------------------------------------
\* stray messages in one behaviour
MaxStrayMessages == 1

\* data on which the try block throws: text that JSON.parse rejects, and
\* the JSON text null, which parses to null so that msg.type throws
UndecodableData == { Text(<<"{">>), Text(<<"n", "u", "l", "l">>) }

\* types for which the switch has no case, or a case that only breaks
UnhandledTypes == {"cf_agent_state", "detection"}

\* a switch that takes any other type for the end of the mission
UnhandledMessageEndsMission(type) ==
    /\ LinkOpen
    /\ calls < MaxStrayMessages
    /\ calls' = calls + 1
    /\ aborted' = IF missionController = Null THEN aborted
                  ELSE aborted \cup {missionController.id}
    /\ missionController' = Null
    /\ currentTarget' = ""
    /\ navController' = NavReset(navController, now)
    /\ sends' = <<FromAgent([type |-> type])>>
    /\ UNCHANGED <<droneState, now, loops, agentWs, timers, lastGood, unit, unitOut,
                   navOut, parseOut,
                   agent>>

\* a decoded message of a type with no case, or of case "cf_agent_state"
UnhandledMessage(type) ==
    /\ LinkOpen
    /\ calls < MaxStrayMessages
    /\ calls' = calls + 1
    /\ sends' = <<FromAgent([type |-> type])>>
    /\ UNCHANGED <<missionController, aborted, currentTarget, droneState, navController,
                   now, loops, agentWs, timers, lastGood, unit, unitOut, navOut,
                   parseOut,
                   agent>>

\* data on which JSON.parse or msg.type throws: the catch logs it
ThrowingMessage(data) ==
    /\ LinkOpen
    /\ calls < MaxStrayMessages
    /\ calls' = calls + 1
    /\ sends' = <<FromAgent(data)>>
    /\ UNCHANGED <<missionController, aborted, currentTarget, droneState, navController,
                   now, loops, agentWs, timers, lastGood, unit, unitOut, navOut,
                   parseOut,
                   agent>>

NextInbox ==
    \/ NextRace
    \/ \E type \in UnhandledTypes : UnhandledMessage(type)
    \/ \E data \in UndecodableData : ThrowingMessage(data)

SpecInbox == InitRace /\ [][NextInbox]_vars

\* the message is none of start-mission, stop-mission, complete, command
IsStray(msg) ==
    \/ "type" \notin DOMAIN msg
    \/ msg.type \notin {"start-mission", "stop-mission", "complete", "command"}

\* C28: a message that cannot be decoded, or whose type is not one the
\* listener handles, is taken in without effect: nothing is sent to the
\* vehicle or to the orchestrator, and handle, abort flags, target, PID
\* state, loops, telemetry and link stay as they were; and a stop-mission
\* that arrives later still aborts the running mission.
C28_StrayMessageIgnored ==
    [][ /\ ( /\ sends' # <<>>
             /\ sends'[1].to = "controller"
             /\ IsStray(sends'[1].msg) ) =>
               /\ Len(sends') = 1
               /\ UNCHANGED <<missionController, aborted, currentTarget, navController,
                              loops, droneState, agentWs, timers, now>>
        /\ ( /\ calls > 0
             /\ sends' = <<FromAgent([type |-> "stop-mission"])>>
             /\ missionController # Null ) =>
               /\ missionController.id \in aborted'
               /\ missionController' = Null
      ]_vars

\* a stray message was received while a mission was running, and the
\* stop-mission after it has just aborted that mission
C28_Witness ==
    /\ calls > 0
    /\ sends = <<FromAgent([type |-> "stop-mission"])>>
    /\ missionController = Null
    /\ \E l \in Missions : Running(l) /\ l \in aborted /\ loops[l].moveCount > 0


\* ------------------------------------------------------------------------
\* SpecAgent: the DroneAgent of the orchestrator (PID strategy), exercised
\* on its own.  Every action is one callback of its event loop: an RPC
\* method up to its first await or its return, one 500 ms timer of a
\* sendCommand call, or one WebSocket event.  agent.out holds what that
\* callback sent, agent.ret what it returned, agent.call what it was.
\* ------------------------------------------------------------------------
MaxControllers == 2

\* sendCommand calls in flight together
MaxPending == 2

\* the move counts the agent is followed up to
MaxAgentMoves == 2

\* for (let i = 0; i < 20 && !this.lastResponse; i++)
POLL_LIMIT == 20

AgentTargets == {"cup", "person"}

AgentCommands == {"battery?"}

\* the payloads of response messages; "" is a vehicle answer of no text
AgentResponses == {"", "ok"}

\* msg.payload.moveCount of a detection message; 0 is falsy
ReportedCounts == {0, 2}

\* msg.payload of a detection message; it may be missing
DetectionPayloads == [moveCount : ReportedCounts] \cup {Null}

\* the message types without a payload the agent reads
OtherTypes == {"complete", "cf_agent_state"}

\* the strings the RPC methods return
NoControllerError == [kind |-> "error", text |-> "Error: No controller connected"]

SentText(command) == [kind |-> "sent", command |-> command]

ResponseText(payload) == [kind |-> "response", payload |-> payload]

MissionStarted(target) == [kind |-> "mission-started", target |-> target]

MissionStopped == [kind |-> "mission-stopped"]

NoControllerStatus == [kind |-> "status", text |-> "No controller connected"]

IdleStatus == [kind |-> "status", text |-> "Connected. Idle."]

MissionStatusText(status) ==
    [kind |-> "status", text |-> "Connected. Mission:",
     target |-> status.target, moves |-> status.moveCount]

\* sendToControllers(message): one ws.send per socket of getWebSockets()
\* that is open, in order
sendToControllers(sockets, message) ==
    LET sendTo[k \in 0..Len(sockets)] ==
            IF k = 0 THEN <<>>
            ELSE IF sockets[k] = "OPEN"
                 THEN Append(sendTo[k - 1], [to |-> k, msg |-> message])
                 ELSE sendTo[k - 1]
    IN  sendTo[Len(sockets)]

\* the sequence q without its k-th element
RemoveAt(q, k) == [j \in 1..(Len(q) - 1) |-> IF j < k THEN q[j] ELSE q[j + 1]]

\* constructor: no socket, lastResponse = "", missionStatus = null.  phase
\* tells whether startMission has succeeded and what ended the mission since
\* (history)
AgentFresh ==
    [sockets |-> <<>>, lastResponse |-> "", missionStatus |-> Null,
     phase |-> "never", pending |-> <<>>, out |-> <<>>, ret |-> Null,
     call |-> Null]

InitAgent ==
    /\ InitController
    /\ unit = Null
    /\ unitOut = Null
    /\ navOut = Null
    /\ parseOut = Null
    /\ calls = 0
    /\ droneState = Null
    /\ agent = AgentFresh

agentFrame == <<missionController, aborted, currentTarget, droneState, navController,
                now, loops, agentWs, sends, unit, unitOut, navOut, parseOut, timers,
                lastGood, calls>>

\* --- WebSocket events: a controller connects (onConnect only logs)
ControllerConnects ==
    /\ Len(agent.sockets) < MaxControllers
    /\ agent' = [agent EXCEPT !.sockets = Append(@, "OPEN"), !.out = <<>>,
                              !.ret = Null, !.call = [op |-> "onConnect"]]
    /\ UNCHANGED agentFrame

\* the socket k begins to close: it is still listed by getWebSockets()
SocketClosing(k) ==
    /\ agent.sockets[k] = "OPEN"
    /\ agent' = [agent EXCEPT !.sockets[k] = "CLOSING", !.out = <<>>,
                              !.ret = Null, !.call = [op |-> "closing"]]
    /\ UNCHANGED agentFrame

\* onClose only logs; the socket is no longer listed
ControllerDisconnects(k) ==
    /\ agent' = [agent EXCEPT !.sockets = RemoveAt(@, k), !.out = <<>>,
                              !.ret = Null, !.call = [op |-> "onClose"]]
    /\ UNCHANGED agentFrame

\* a sendCommand that keeps the stored response
AgentSendCommandKeepsResponse(command) ==
    /\ Len(agent.sockets) > 0 => Len(agent.pending) < MaxPending
    /\ agent' =
         IF Len(agent.sockets) = 0
         THEN [agent EXCEPT !.out = <<>>, !.ret = [value |-> NoControllerError],
                            !.call = [op |-> "sendCommand", arg |-> command]]
         ELSE [agent EXCEPT
                 !.out = sendToControllers(agent.sockets,
                                           [type |-> "command", payload |-> command]),
                 !.pending = Append(@, [command |-> command, i |-> 1, heard |-> {}]),
                 !.ret = Null,
                 !.call = [op |-> "sendCommand", arg |-> command]]
    /\ UNCHANGED agentFrame

\* --- sendCommand(command) up to its first await.  i counts the 500 ms
\* waits the call has begun; heard holds the response payloads received
\* since the broadcast (history)
AgentSendCommand(command) ==
    /\ Len(agent.sockets) > 0 => Len(agent.pending) < MaxPending
    /\ agent' =
         IF Len(agent.sockets) = 0
         THEN [agent EXCEPT !.out = <<>>, !.ret = [value |-> NoControllerError],
                            !.call = [op |-> "sendCommand", arg |-> command]]
         ELSE [agent EXCEPT
                 !.lastResponse = "",
                 !.out = sendToControllers(agent.sockets,
                                           [type |-> "command", payload |-> command]),
                 !.pending = Append(@, [command |-> command, i |-> 1, heard |-> {}]),
                 !.ret = Null,
                 !.call = [op |-> "sendCommand", arg |-> command]]
    /\ UNCHANGED agentFrame

\* --- the 500 ms timer of the pending sendCommand call k fires: i++, the
\* loop test, then the next wait or the return.  Timers of one delay fire
\* in the order they were set, so a call never overtakes an earlier one.
AgentPoll(k) ==
    /\ \A j \in 1..(k - 1) : agent.pending[j].i > agent.pending[k].i
    /\ LET c == agent.pending[k]
       IN  agent' =
             IF c.i < POLL_LIMIT /\ agent.lastResponse = ""
             THEN [agent EXCEPT !.pending[k].i = @ + 1, !.out = <<>>, !.ret = Null,
                                !.call = [op |-> "poll", arg |-> c.command]]
             ELSE [agent EXCEPT
                     !.pending = RemoveAt(@, k),
                     !.out = <<>>,
                     !.ret = [value |-> IF agent.lastResponse # ""
                                        THEN ResponseText(agent.lastResponse)
                                        ELSE SentText(c.command),
                              polls |-> c.i, heard |-> c.heard],
                     !.call = [op |-> "poll", arg |-> c.command]]
    /\ UNCHANGED agentFrame

\* a startMission that sends to each open socket twice
AgentStartMissionTwice(target) ==
    /\ agent' =
         IF Len(agent.sockets) = 0
         THEN [agent EXCEPT !.out = <<>>, !.ret = [value |-> NoControllerError],
                            !.call = [op |-> "startMission", arg |-> target]]
         ELSE LET once == sendToControllers(agent.sockets,
                              [type |-> "start-mission", payload |-> target])
              IN  [agent EXCEPT
                     !.missionStatus = [target |-> target, moveCount |-> 0],
                     !.phase = "started",
                     !.out = once \o once,
                     !.ret = [value |-> MissionStarted(target)],
                     !.call = [op |-> "startMission", arg |-> target]]
    /\ UNCHANGED agentFrame

\* --- startMission(target)
AgentStartMission(target) ==
    /\ agent' =
         IF Len(agent.sockets) = 0
         THEN [agent EXCEPT !.out = <<>>, !.ret = [value |-> NoControllerError],
                            !.call = [op |-> "startMission", arg |-> target]]
         ELSE [agent EXCEPT
                 !.missionStatus = [target |-> target, moveCount |-> 0],
                 !.phase = "started",
                 !.out = sendToControllers(agent.sockets,
                                           [type |-> "start-mission", payload |-> target]),
                 !.ret = [value |-> MissionStarted(target)],
                 !.call = [op |-> "startMission", arg |-> target]]
    /\ UNCHANGED agentFrame

\* --- stopMission()
AgentStopMission ==
    /\ agent' = [agent EXCEPT
                   !.missionStatus = Null,
                   !.phase = "stopped",
                   !.out = sendToControllers(agent.sockets, [type |-> "stop-mission"]),
                   !.ret = [value |-> MissionStopped],
                   !.call = [op |-> "stopMission"]]
    /\ UNCHANGED agentFrame

\* --- getStatus(); the height and battery suffix is left out
AgentGetStatus ==
    /\ agent' = [agent EXCEPT
                   !.out = <<>>,
                   !.ret = [value |-> IF Len(agent.sockets) = 0 THEN NoControllerStatus
                                      ELSE IF agent.missionStatus # Null
                                      THEN MissionStatusText(agent.missionStatus)
                                      ELSE IdleStatus],
                   !.call = [op |-> "getStatus"]]
    /\ UNCHANGED agentFrame

\* the mission status after a detection message
AfterDetectionCreates(status, payload) ==
    IF payload = Null THEN status
    ELSE IF status = Null
    THEN [target |-> "", moveCount |-> payload.moveCount]
    ELSE [status EXCEPT !.moveCount = IF payload.moveCount # 0 THEN payload.moveCount
                                       ELSE @ + 1]

\* case "detection": the status is updated only while there is one
AfterDetection(status, payload) ==
    IF status = Null \/ payload = Null THEN status
    ELSE [status EXCEPT !.moveCount = IF payload.moveCount # 0 THEN payload.moveCount
                                       ELSE @ + 1]

\* --- onMessage(connection, message), from a connected controller
AgentOnMessage(msg) ==
    /\ Len(agent.sockets) > 0
    /\ (msg.type = "detection" /\ AfterDetection(agent.missionStatus, msg.payload) # Null) =>
           AfterDetection(agent.missionStatus, msg.payload).moveCount <= MaxAgentMoves
    /\ agent' =
         [agent EXCEPT
            !.lastResponse = IF msg.type = "response" THEN msg.payload ELSE @,
            !.pending = IF msg.type = "response"
                        THEN [k \in DOMAIN @ |->
                                 [@[k] EXCEPT !.heard = @ \cup {msg.payload}]]
                        ELSE @,
            !.missionStatus = IF msg.type = "detection"
                              THEN AfterDetection(@, msg.payload)
                              ELSE IF msg.type = "complete" THEN Null
                              ELSE @,
            !.phase = IF msg.type = "complete" THEN "complete" ELSE @,
            !.out = <<>>,
            !.ret = Null,
            !.call = [op |-> "onMessage", arg |-> msg]]
    /\ UNCHANGED agentFrame

NextAgent ==
    \/ ControllerConnects
    \/ \E k \in DOMAIN agent.sockets : SocketClosing(k)
    \/ \E k \in DOMAIN agent.sockets : ControllerDisconnects(k)
    \/ \E command \in AgentCommands : AgentSendCommand(command)
    \/ \E k \in DOMAIN agent.pending : AgentPoll(k)
    \/ \E target \in AgentTargets : AgentStartMission(target)
    \/ AgentStopMission
    \/ AgentGetStatus
    \/ \E payload \in AgentResponses :
           AgentOnMessage([type |-> "response", payload |-> payload])
    \/ \E payload \in DetectionPayloads :
           AgentOnMessage([type |-> "detection", payload |-> payload])
    \/ \E type \in OtherTypes : AgentOnMessage([type |-> type, payload |-> Null])

SpecAgent == InitAgent /\ [][NextAgent]_vars

\* the call just made was the RPC method op
Called(op) == agent.call # Null /\ agent.call.op = op

\* the number of messages the last callback sent to the socket k
SentTo(k) == Cardinality({j \in DOMAIN agent.out : agent.out[j].to = k})

\* C35: sendCommand and startMission called with no controller connected
\* return the error string, send nothing and leave the mission status as it
\* was; startMission with a controller connected records the target with
\* move count 0 and broadcasts one start-mission message: every open socket
\* gets it exactly once, and nothing else is sent.
C35_StartNeedsController ==
    [][ /\ (agent'.call.op \in {"sendCommand", "startMission"} /\ Len(agent.sockets) = 0) =>
               /\ agent'.ret = [value |-> NoControllerError]
               /\ agent'.out = <<>>
               /\ agent'.missionStatus = agent.missionStatus
               /\ agent'.pending = agent.pending
        /\ (agent'.call.op = "startMission" /\ Len(agent.sockets) > 0) =>
               /\ agent'.missionStatus = [target |-> agent'.call.arg, moveCount |-> 0]
               /\ agent'.ret = [value |-> MissionStarted(agent'.call.arg)]
               /\ \A j \in DOMAIN agent'.out :
                      agent'.out[j].msg = [type |-> "start-mission",
                                           payload |-> agent'.call.arg]
               /\ \A k \in DOMAIN agent.sockets :
                      Cardinality({j \in DOMAIN agent'.out : agent'.out[j].to = k})
                          = IF agent.sockets[k] = "OPEN" THEN 1 ELSE 0
      ]_vars

\* startMission("person") has been refused for want of a controller, and
\* the status of the mission started for "cup" before is still there
C35_Witness ==
    /\ agent.call = [op |-> "startMission", arg |-> "person"]
    /\ agent.sockets = <<>>
    /\ agent.ret = [value |-> NoControllerError]
    /\ agent.missionStatus # Null
    /\ agent.missionStatus.target = "cup"

\* C36 as stated: the mission status is non-null exactly between a
\* successful startMission and the next stopMission or complete message, and
\* outside of that getStatus reports Idle.
C36_IdleWhenNoMission ==
    /\ (agent.missionStatus # Null) <=> (agent.phase = "started")
    /\ (Called("getStatus") /\ agent.phase # "started") =>
           agent.ret = [value |-> IdleStatus]

\* C36, amended: the mission status is non-null exactly between a
\* successful startMission and the next stopMission or complete message (so
\* no detection message re-creates it), and outside of that getStatus
\* reports Idle while a controller is connected and "No controller
\* connected" while none is.
C36_MissionStatusLifetime ==
    /\ (agent.missionStatus # Null) <=> (agent.phase = "started")
    /\ (Called("getStatus") /\ agent.phase # "started") =>
           agent.ret = [value |-> IF Len(agent.sockets) = 0 THEN NoControllerStatus
                                  ELSE IdleStatus]

\* a detection message with a payload has arrived after stopMission and
\* there is no mission status
C36_Witness ==
    /\ agent.phase = "stopped"
    /\ Called("onMessage")
    /\ agent.call.arg = [type |-> "detection", payload |-> [moveCount |-> 2]]
    /\ agent.missionStatus = Null

\* C37: a sendCommand call waits at most 20 times; when it returns a vehicle
\* response, that response was received after the call's broadcast; when it
\* does not, it returns Sent: c, after the 20th wait.
C37_SendCommandReturn ==
    /\ \A k \in DOMAIN agent.pending : agent.pending[k].i <= POLL_LIMIT
    /\ (Called("poll") /\ agent.ret # Null) =>
           /\ agent.ret.polls <= POLL_LIMIT
           /\ IF agent.ret.value.kind = "response"
              THEN /\ agent.ret.value.payload # ""
                   /\ agent.ret.value.payload \in agent.ret.heard
              ELSE /\ agent.ret.value = SentText(agent.call.arg)
                   /\ agent.ret.polls = POLL_LIMIT

\* a call has returned Sent: c after 20 waits although a response arrived
\* after its broadcast: a later sendCommand cleared it
C37_Witness ==
    /\ Called("poll")
    /\ agent.ret # Null
    /\ agent.ret.value = SentText("battery?")
    /\ agent.ret.polls = POLL_LIMIT
    /\ "ok" \in agent.ret.heard

\* ------------------------------------------------------------------------
\* SpecAgentLLM: the DroneAgent of the LLM strategy, which generates the
\* commands itself, exercised on its own.  onMessage awaits generateMove, so
\* a detection message is two callbacks: up to the await, and from the
\* answer of the language model on.  sendCommand is as in the PID strategy.
\* ------------------------------------------------------------------------
\* generateMove calls in progress together
MaxGenerating == 2

\* what generateText answers, trimmed
MoveTexts == {"forward 50", "land"}

\* constructor: currentTarget = "".  generating holds the generateMove calls
\* awaiting their answer, each with the target its prompt was built with;
\* cleared tells that stopMission has cleared the target and no startMission
\* has set one since (history)
AgentLLMFresh ==
    [sockets |-> <<>>, currentTarget |-> "", lastResponse |-> "",
     generating |-> <<>>, cleared |-> FALSE, out |-> <<>>, ret |-> Null,
     call |-> Null]

InitAgentLLM ==
    /\ InitController
    /\ unit = Null
    /\ unitOut = Null
    /\ navOut = Null
    /\ parseOut = Null
    /\ calls = 0
    /\ droneState = Null
    /\ agent = AgentLLMFresh

\* connection.send(message): to the controller the detection came from
ToSender(message) == [to |-> "sender", msg |-> message]

\* --- startMission(target)
LLMStartMission(target) ==
    /\ agent' =
         IF Len(agent.sockets) = 0
         THEN [agent EXCEPT !.out = <<>>, !.ret = [value |-> NoControllerError],
                            !.call = [op |-> "startMission", arg |-> target]]
         ELSE [agent EXCEPT
                 !.currentTarget = target,
                 !.cleared = FALSE,
                 !.out = sendToControllers(agent.sockets,
                                           [type |-> "start-mission", payload |-> target]),
                 !.ret = [value |-> MissionStarted(target)],
                 !.call = [op |-> "startMission", arg |-> target]]
    /\ UNCHANGED agentFrame

\* --- stopMission()
LLMStopMission ==
    /\ agent' = [agent EXCEPT
                   !.currentTarget = "",
                   !.cleared = TRUE,
                   !.out = sendToControllers(agent.sockets, [type |-> "stop-mission"]),
                   !.ret = [value |-> MissionStopped],
                   !.call = [op |-> "stopMission"]]
    /\ UNCHANGED agentFrame

\* --- getStatus()
LLMGetStatus ==
    /\ agent' = [agent EXCEPT
                   !.out = <<>>,
                   !.ret = [value |-> IF Len(agent.sockets) = 0 THEN NoControllerStatus
                                      ELSE IF agent.currentTarget # ""
                                      THEN [kind |-> "status", text |-> "Connected. Mission:",
                                            target |-> agent.currentTarget]
                                      ELSE IdleStatus],
                   !.call = [op |-> "getStatus"]]
    /\ UNCHANGED agentFrame

\* --- onMessage, case "response"
LLMResponseMessage(payload) ==
    /\ Len(agent.sockets) > 0
    /\ agent' = [agent EXCEPT !.lastResponse = payload, !.out = <<>>, !.ret = Null,
                              !.call = [op |-> "onMessage", arg |-> "response"]]
    /\ UNCHANGED agentFrame

\* --- onMessage, case "detection", up to await this.generateMove(..)
LLMDetectionMessage ==
    /\ Len(agent.sockets) > 0
    /\ agent.currentTarget # "" => Len(agent.generating) < MaxGenerating
    /\ agent' = [agent EXCEPT
                   !.generating = IF agent.currentTarget = "" THEN @
                                  ELSE Append(@, [target |-> agent.currentTarget]),
                   !.out = <<>>,
                   !.ret = Null,
                   !.call = [op |-> "onMessage", arg |-> "detection"]]
    /\ UNCHANGED agentFrame

\* --- generateText answers the call k: the rest of onMessage
LLMGenerateDone(k, text) ==
    /\ agent' = [agent EXCEPT
                   !.generating = RemoveAt(@, k),
                   !.currentTarget = IF text = "land" THEN "" ELSE @,
                   !.out = <<ToSender([type |-> "command", payload |-> text])>>
                           \o IF text = "land"
                              THEN <<ToSender([type |-> "complete"])>>
                              ELSE <<>>,
                   !.ret = Null,
                   !.call = [op |-> "generated", arg |-> text]]
    /\ UNCHANGED agentFrame

NextAgentLLM ==
    \/ ControllerConnects
    \/ \E k \in DOMAIN agent.sockets : SocketClosing(k)
    \/ \E k \in DOMAIN agent.sockets : ControllerDisconnects(k)
    \/ \E target \in AgentTargets : LLMStartMission(target)
    \/ LLMStopMission
    \/ LLMGetStatus
    \/ \E payload \in AgentResponses : LLMResponseMessage(payload)
    \/ LLMDetectionMessage
    \/ \E k \in DOMAIN agent.generating, text \in MoveTexts : LLMGenerateDone(k, text)

SpecAgentLLM == InitAgentLLM /\ [][NextAgentLLM]_vars

\* C38: while the target is cleared by stopMission, no callback sends a
\* command message to a controller, whether the detection it answers came
\* before or after stopMission.
C38_NoCommandAfterStop ==
    agent.cleared =>
        \A j \in DOMAIN agent.out : agent.out[j].msg.type # "command"

====
